---------------------------- MODULE Spec2Model ----------------------------
(***************************************************************************)
(* Model of the meeting-analysis job of python-backend                     *)
(* (app/routes/process.py): the per-speaker metrics engine (talk time,     *)
(* response latency, interruptions, merge) and the job that runs it        *)
(* (download, transcription, metrics, tips, save, status, cleanup).        *)
(*                                                                         *)
(* Numbers.  Segment times are whole seconds.  A value the code rounds is  *)
(* kept as the integer count of its last decimal:                          *)
(*   percentage, quick_responses_percentage   tenths of a percent          *)
(*   total_time, average_seconds              hundredths of a second       *)
(*   interruption_rate                        hundredths per minute        *)
(* Python's round(x, n) is round-half-to-even on the value of x.           *)
(***************************************************************************)
EXTENDS Integers, Sequences, FiniteSets, TLC

\* ---------------------------------------------------------------- bounds
MaxSegs == 3          \* longest segment list given to the engine alone
MaxEngineTime == 1    \* latest timestamp of those lists, in seconds
MaxJobSegs == 2       \* longest segment list of a job taken from line 249 on
MaxTime == 2          \* latest timestamp of a job's segments, in seconds
MaxPctSpeakers == 6   \* most speakers of a round of turns
MaxPctDuration == 2   \* longest turn of such a round, in seconds
MaxTurns == 5         \* most turns of a dialogue of two speakers
MaxGap == 2           \* longest pause between two turns, in seconds
MaxTalkSegs == 2      \* longest list of segments with absent fields
MaxTalkStamp == 1     \* latest timestamp of those segments, in seconds
FloatBits == 6        \* bits of a float's significand (53 in Python)
MaxFloatSegs == 3     \* longest list of segments with long durations
MaxSummaryTime == 8   \* latest timestamp of the two-segment transcripts
MaxRunTime == 1       \* latest timestamp of a whole run's two segments

\* ------------------------------------------------- the state of a job
VARIABLES
    pc,                         \* where process_job_task stands
    segments,                   \* transcription_result["segments"]
    num_speakers,               \* transcription_result.get("num_speakers", 0)
    speaker_stats,              \* speaker -> statistics
    speaker_order,              \* iteration order of speaker_stats
    per_speaker_latency,        \* result of the latency calculator
    per_speaker_interruptions,  \* result of the interruption calculator
    tip_queue,                  \* speakers the tip loop has still to visit
    communication_tips,         \* speaker -> stats["communication_tips"]
    tip_calls,                  \* the calls made to the tip collaborator
    saved_record,               \* records the persistence collaborator holds
    status_writes,              \* job statuses written to the database
    status_calls,               \* the calls of update_job_status made
    error,                      \* str(e) of the exception the job caught
    temp_dir,                   \* the job's temporary directory exists
    temp_file,                  \* the downloaded file exists
    environ,                    \* os.environ: the two API keys
    providers,                  \* LLMAdapter.providers
    preferred_provider,         \* LLMAdapter.preferred_provider
    selected_provider,          \* LLMAdapter.selected_provider
    provider_calls,             \* the calls made on the adapter
    transcript                  \* the AssemblyAI transcript being parsed

\* Python's None: the value of "communication_metrics" in the record (line
\* 373) and the error of update_job_status when none is passed.
None == "<None>"

\* ----------------------------------------------------------- segment model
\* segment.get("speaker") of a segment that has no "speaker" key: None.
NoSpeaker == "<None>"
\* segment.get("speaker", "Unknown") of such a segment.
Unknown == "Unknown"
\* Speaker labels a segment can carry; "" is the empty label.
Labels == {"A", "B", ""}
SpeakerValues == Labels \cup {NoSpeaker}
\* A text is a sequence of characters: word characters and blanks.
Texts == {<<"w", " ", "w">>}
\* A segment without a "start" or "end" key has Absent in that field, one
\* without a "text" key has AbsentText.
Absent == -1
AbsentText == <<"<absent>">>
\* segment.get("start", 0), segment.get("end", 0)
NumberOr0(v) == IF v = Absent THEN 0 ELSE v
\* segment.get("text", "")
TextOrEmpty(t) == IF t = AbsentText THEN <<>> ELSE t

Segments ==
    {s \in [start : 0..MaxTime, end : 0..MaxTime,
            speaker : SpeakerValues, text : Texts] : s.end >= s.start}

\* segs is a segment list of at most n segments, with timestamps up to t,
\* that a transcription can return: the providers (the utterances and words
\* of AssemblyAI, the blocks of an SRT file) list segments in the order they
\* were spoken, by start ascending.
IsTranscriptOf(segs, n, t) ==
    \E k \in 0..n :
      \E st \in [1..k -> 0..t] :
        /\ \A i \in 1..k : i < k => st[i] <= st[i + 1]
        /\ \E en \in [1..k -> 0..t] :
             /\ \A i \in 1..k : en[i] >= st[i]
             /\ \E sp \in [1..k -> SpeakerValues] :
                  \E tx \in [1..k -> Texts] :
                    segs = [i \in 1..k |->
                               [start |-> st[i], end |-> en[i],
                                speaker |-> sp[i], text |-> tx[i]]]

\* ------------------------------------------------------------- arithmetic
Max(a, b) == IF a >= b THEN a ELSE b
Min(a, b) == IF a <= b THEN a ELSE b

\* round(num / den * scale', n): the nearest integer to num / den, ties to
\* the even one (den > 0).
Round(num, den) ==
    LET q == num \div den
        r == num % den
    IN  IF 2 * r < den THEN q
        ELSE IF 2 * r > den THEN q + 1
        ELSE IF q % 2 = 0 THEN q ELSE q + 1

\* Timestamps and their sums and differences are floats: a result that
\* needs more than FloatBits significant bits is rounded to the nearest
\* number that has them, ties to the one with an even significand.
\* The distance between the floats next to m >= 0.
RECURSIVE Ulp(_)
Ulp(m) == IF m < 2 ^ FloatBits THEN 1 ELSE 2 * Ulp(m \div 2)
\* The float nearest to m >= 0: m itself when FloatBits bits hold it.
FlAbs(m) == IF m < 2 ^ FloatBits THEN m ELSE Round(m, Ulp(m)) * Ulp(m)
Fl(x) == IF x < 0 THEN -FlAbs(-x) ELSE FlAbs(x)
\* a + b and a - b on floats.
FloatAdd(a, b) == Fl(a + b)
FloatSub(a, b) == Fl(a - b)

\* sum(s): the elements are added to 0 from left to right.
RECURSIVE SumSeqFrom(_, _)
SumSeqFrom(s, acc) ==
    IF s = <<>> THEN acc ELSE SumSeqFrom(Tail(s), FloatAdd(acc, Head(s)))
SumSeq(s) == SumSeqFrom(s, 0)

\* Python truthiness of a speaker value: None and "" are falsy.
Truthy(sp) == sp # NoSpeaker /\ sp # ""


\* An empty dict.
EmptyMap == [k \in {} |-> 0]
\* d[key] = value on a dict.
Put(d, key, value) ==
    [k \in DOMAIN d \cup {key} |-> IF k = key THEN value ELSE d[k]]

\* ------------------------------------------------- talk-time aggregation
\* segment.get("speaker", "Unknown")
TalkKey(seg) == IF seg.speaker = NoSpeaker THEN Unknown ELSE seg.speaker

\* Variant: len(text.split(" ")), one more than the number of blanks.
WordCountBySingleBlank(text) ==
    Cardinality({i \in 1..Len(text) : text[i] = " "}) + 1

\* len(text.split()): the number of maximal runs of non-blank characters.
WordCount(text) ==
    Cardinality({i \in 1..Len(text) :
                    text[i] # " " /\ (i = 1 \/ text[i - 1] = " ")})

NewSpeakerStats == [total_time |-> 0, word_count |-> 0, segments |-> 0]

\* Variant: a speaker's total_time is the length of their last segment.
RECURSIVE TalkTimeLoopLastWins(_, _)
TalkTimeLoopLastWins(segs, st) ==
    IF segs = <<>> THEN st
    ELSE LET seg == Head(segs)
             speaker == TalkKey(seg)
             cur == IF speaker \in DOMAIN st.stats
                    THEN st.stats[speaker] ELSE NewSpeakerStats
             new == [total_time |-> NumberOr0(seg.end) - NumberOr0(seg.start),
                     word_count |-> cur.word_count
                                      + WordCount(TextOrEmpty(seg.text)),
                     segments |-> cur.segments + 1]
         IN  TalkTimeLoopLastWins(Tail(segs),
                 [stats |-> Put(st.stats, speaker, new),
                  order |-> IF speaker \in DOMAIN st.stats
                            THEN st.order ELSE Append(st.order, speaker)])

\* The loop over the segments: speaker_stats and the order in which its keys
\* were inserted (a dict iterates in insertion order).
RECURSIVE TalkTimeLoop(_, _)
TalkTimeLoop(segs, st) ==
    IF segs = <<>> THEN st
    ELSE LET seg == Head(segs)
             speaker == TalkKey(seg)
             cur == IF speaker \in DOMAIN st.stats
                    THEN st.stats[speaker] ELSE NewSpeakerStats
             new == [total_time |->
                         FloatAdd(cur.total_time,
                                  FloatSub(NumberOr0(seg.end),
                                           NumberOr0(seg.start))),
                     word_count |-> cur.word_count
                                      + WordCount(TextOrEmpty(seg.text)),
                     segments |-> cur.segments + 1]
         IN  TalkTimeLoop(Tail(segs),
                 [stats |-> Put(st.stats, speaker, new),
                  order |-> IF speaker \in DOMAIN st.stats
                            THEN st.order ELSE Append(st.order, speaker)])

\* Variant: the accumulator is kept from one run to the next.
TalkTimeKept(segs) ==
    TalkTimeLoop(segs, [stats |-> speaker_stats, order |-> speaker_order])

TalkTime(segs) == TalkTimeLoop(segs, [stats |-> EmptyMap, order |-> <<>>])

\* sum(stats["total_time"] for stats in speaker_stats.values())
RECURSIVE SumTotalTimeFrom(_, _, _)
SumTotalTimeFrom(stats, order, acc) ==
    IF order = <<>> THEN acc
    ELSE SumTotalTimeFrom(stats, Tail(order),
                          FloatAdd(acc, stats[Head(order)].total_time))
SumTotalTime(stats, order) == SumTotalTimeFrom(stats, order, 0)

\* Variant: the percentage is cut after its first decimal.
PercentageTruncated(t, total_time) ==
    IF total_time > 0 THEN (t * 1000) \div total_time ELSE 0

\* Variant: a zero total gives every speaker 100.0.
PercentageFullOnZero(t, total_time) ==
    IF total_time > 0 THEN Round(t * 1000, total_time) ELSE 1000

\* round(stats["total_time"] / total_time * 100, 1), or 0 for a zero total.
Percentage(t, total_time) ==
    IF total_time > 0 THEN Round(t * 1000, total_time) ELSE 0

\* speaker_stats after the percentage loop.
WithPercentages(tt) ==
    LET total_time == SumTotalTime(tt.stats, tt.order)
    IN  [sp \in DOMAIN tt.stats |->
            [total_time |-> Round(tt.stats[sp].total_time * 100, 1),
             word_count |-> tt.stats[sp].word_count,
             segments |-> tt.stats[sp].segments,
             percentage |-> Percentage(tt.stats[sp].total_time, total_time)]]

\* ------------------------------------------------------ response latency
\* Variant: a negative gap counts as a response too.
CountsAsResponseAnyGap(prev_speaker, prev_end_set, current_speaker, gap) ==
    /\ Truthy(prev_speaker)
    /\ prev_end_set
    /\ prev_speaker # current_speaker

\* The test of the latency loop: the previous speaker is set and truthy,
\* prev_end is set, the speaker changed, and the gap is not negative.
CountsAsResponse(prev_speaker, prev_end_set, current_speaker, gap) ==
    /\ Truthy(prev_speaker)
    /\ prev_end_set
    /\ prev_speaker # current_speaker
    /\ gap >= 0

\* Variant: the gap is stored under the speaker who stopped talking.
GapOwnerPrevious(prev_speaker, current_speaker) == prev_speaker

\* The speaker a gap is stored under: the current (responding) one.
GapOwner(prev_speaker, current_speaker) == current_speaker

\* The loop over the segments, carrying speaker_gaps, prev_speaker and
\* prev_end (prev_end_set is FALSE while prev_end is None).
RECURSIVE LatencyLoop(_, _)
LatencyLoop(segs, st) ==
    IF segs = <<>> THEN st.speaker_gaps
    ELSE LET segment == Head(segs)
             current_speaker == segment.speaker
             current_start == NumberOr0(segment.start)
             gap == FloatSub(current_start, st.prev_end)
             owner == GapOwner(st.prev_speaker, current_speaker)
             old == IF owner \in DOMAIN st.speaker_gaps
                    THEN st.speaker_gaps[owner] ELSE <<>>
             gaps == IF CountsAsResponse(st.prev_speaker, st.prev_end_set,
                                         current_speaker, gap)
                     THEN Put(st.speaker_gaps, owner, Append(old, gap))
                     ELSE st.speaker_gaps
         IN  LatencyLoop(Tail(segs),
                 [speaker_gaps |-> gaps,
                  prev_speaker |-> current_speaker,
                  prev_end |-> NumberOr0(segment.end),
                  prev_end_set |-> TRUE])

SpeakerGaps(segs) ==
    LatencyLoop(segs, [speaker_gaps |-> EmptyMap, prev_speaker |-> NoSpeaker,
                       prev_end |-> 0, prev_end_set |-> FALSE])

\* Variant: a gap of exactly 1.0 second is quick too.
IsQuickInclusive(g) == g <= 1

\* A gap under 1.0 second is a quick response.
QuickThreshold == 1
IsQuick(g) == g < QuickThreshold

QuickResponses(gaps) == SelectSeq(gaps, IsQuick)

LatencyMetrics(gaps) ==
    [average_seconds |-> Round(SumSeq(gaps) * 100, Len(gaps)),
     response_count |-> Len(gaps),
     quick_responses_count |-> Len(QuickResponses(gaps)),
     quick_responses_percentage |->
         Round(Len(QuickResponses(gaps)) * 1000, Len(gaps))]

calculate_per_speaker_response_latency(segs) ==
    IF Len(segs) < 2 THEN EmptyMap
    ELSE LET speaker_gaps == SpeakerGaps(segs)
         IN  [sp \in {k \in DOMAIN speaker_gaps : speaker_gaps[k] # <<>>} |->
                 LatencyMetrics(speaker_gaps[sp])]

\* ---------------------------------------------------------- interruptions
NewInterruptions == [times_interrupted |-> 0, times_interrupting |-> 0]

\* Variant: a speaker's time is the end timestamp of their last segment.
RECURSIVE InitInterruptionsMeetingTime(_, _)
InitInterruptionsMeetingTime(segs, st) ==
    IF segs = <<>> THEN st
    ELSE LET seg == Head(segs)
             speaker == seg.speaker
             known == speaker \in DOMAIN st.speaker_interruptions
         IN  InitInterruptionsMeetingTime(Tail(segs),
                 [speaker_interruptions |->
                      IF known THEN st.speaker_interruptions
                      ELSE Put(st.speaker_interruptions, speaker,
                               NewInterruptions),
                  speaker_talk_time |->
                      Put(st.speaker_talk_time, speaker, seg.end)])

\* The first loop: an entry of zeroes per speaker, and each speaker's talk
\* time.
RECURSIVE InitInterruptions(_, _)
InitInterruptions(segs, st) ==
    IF segs = <<>> THEN st
    ELSE LET seg == Head(segs)
             speaker == seg.speaker
             known == speaker \in DOMAIN st.speaker_interruptions
             time == IF known THEN st.speaker_talk_time[speaker] ELSE 0
         IN  InitInterruptions(Tail(segs),
                 [speaker_interruptions |->
                      IF known THEN st.speaker_interruptions
                      ELSE Put(st.speaker_interruptions, speaker,
                               NewInterruptions),
                  speaker_talk_time |->
                      Put(st.speaker_talk_time, speaker,
                          FloatAdd(time,
                                   FloatSub(NumberOr0(seg.end),
                                            NumberOr0(seg.start))))])

\* Variant: any two segments of different speakers count.
IsInterruptionAnyPair(seg1, seg2) == seg1.speaker # seg2.speaker

\* Variant: intervals that only touch count as overlapping.
IsInterruptionTouching(seg1, seg2) ==
    /\ seg1.speaker # seg2.speaker
    /\ Max(seg1.start, seg2.start) <= Min(seg1.end, seg2.end)

\* Different speakers, and the intervals overlap strictly.
IsInterruption(seg1, seg2) ==
    /\ seg1.speaker # seg2.speaker
    /\ Max(NumberOr0(seg1.start), NumberOr0(seg2.start))
           < Min(NumberOr0(seg1.end), NumberOr0(seg2.end))

\* Variant: the roles of the two speakers exchanged.
RecordInterruptionSwapped(m, speaker1, speaker2) ==
    [m EXCEPT ![speaker2].times_interrupted = @ + 1,
              ![speaker1].times_interrupting = @ + 1]

\* speaker2 interrupted speaker1.
RecordInterruption(m, speaker1, speaker2) ==
    [m EXCEPT ![speaker1].times_interrupted = @ + 1,
              ![speaker2].times_interrupting = @ + 1]

\* Variant: only the segment right after segment i is compared with it.
RECURSIVE InnerLoopAdjacent(_, _, _, _)
InnerLoopAdjacent(segs, i, j, m) ==
    IF j > Len(segs) \/ j > i + 1 THEN m
    ELSE InnerLoopAdjacent(segs, i, j + 1,
             IF Max(segs[i].start, segs[j].start) < Min(segs[i].end, segs[j].end)
                /\ segs[i].speaker # segs[j].speaker
             THEN [m EXCEPT ![segs[i].speaker].times_interrupted = @ + 1,
                            ![segs[j].speaker].times_interrupting = @ + 1]
             ELSE m)

\* for seg2 in segments[i + 1:], from index j on.
RECURSIVE InnerLoop(_, _, _, _)
InnerLoop(segs, i, j, m) ==
    IF j > Len(segs) THEN m
    ELSE InnerLoop(segs, i, j + 1,
             IF IsInterruption(segs[i], segs[j])
             THEN RecordInterruption(m, segs[i].speaker, segs[j].speaker)
             ELSE m)

\* for i, seg1 in enumerate(segments), from index i on.
RECURSIVE OuterLoop(_, _, _)
OuterLoop(segs, i, m) ==
    IF i > Len(segs) THEN m
    ELSE OuterLoop(segs, i + 1, InnerLoop(segs, i, i + 1, m))

\* Variant: the rate is taken per minute of the meeting, up to the end of
\* the last segment, instead of per minute of the speaker's own talk time.
InterruptionRateOverMeeting(metrics, talk_time) ==
    LET last == IF segments = <<>> THEN 0
                ELSE NumberOr0(segments[Len(segments)].end)
    IN  IF last > 0
        THEN Round((metrics.times_interrupted + metrics.times_interrupting)
                       * 60 * 100, last)
        ELSE 0

\* round(total_interruptions / (talk_time / 60), 2), or 0.0 when the
\* speaker's talk time is not positive.
InterruptionRate(metrics, talk_time) ==
    IF talk_time > 0
    THEN Round((metrics.times_interrupted + metrics.times_interrupting)
                   * 60 * 100, talk_time)
    ELSE 0

\* Variant: no early return for a list of fewer than 2 segments.
calculate_per_speaker_interruptionsUnguarded(segs) ==
    LET st == InitInterruptions(segs,
                  [speaker_interruptions |-> EmptyMap,
                   speaker_talk_time |-> EmptyMap])
        counted == OuterLoop(segs, 1, st.speaker_interruptions)
    IN  [sp \in DOMAIN counted |->
            [times_interrupted |-> counted[sp].times_interrupted,
             times_interrupting |-> counted[sp].times_interrupting,
             interruption_rate |->
                 InterruptionRate(counted[sp], st.speaker_talk_time[sp])]]

calculate_per_speaker_interruptions(segs) ==
    IF Len(segs) < 2 THEN EmptyMap
    ELSE LET st == InitInterruptions(segs,
                       [speaker_interruptions |-> EmptyMap,
                        speaker_talk_time |-> EmptyMap])
             counted == OuterLoop(segs, 1, st.speaker_interruptions)
         IN  [sp \in DOMAIN counted |->
                 [times_interrupted |-> counted[sp].times_interrupted,
                  times_interrupting |-> counted[sp].times_interrupting,
                  interruption_rate |->
                      InterruptionRate(counted[sp],
                                       st.speaker_talk_time[sp])]]

\* ------------------------------------------------------------------ merge
\* Variant: the latency fields are always the defaults.
LatencyEntryDefaults(latency, speaker) ==
    [response_latency |-> 0, response_count |-> 0,
     quick_responses_percentage |-> 0]

\* latency_metrics.get(field, default) of per_speaker_latency.get(speaker, {})
LatencyEntry(latency, speaker) ==
    IF speaker \in DOMAIN latency
    THEN [response_latency |-> latency[speaker].average_seconds,
          response_count |-> latency[speaker].response_count,
          quick_responses_percentage |->
              latency[speaker].quick_responses_percentage]
    ELSE [response_latency |-> 0, response_count |-> 0,
          quick_responses_percentage |-> 0]

InterruptionEntry(interruptions, speaker) ==
    IF speaker \in DOMAIN interruptions
    THEN interruptions[speaker]
    ELSE [times_interrupted |-> 0, times_interrupting |-> 0,
          interruption_rate |-> 0]

\* The merge loop over speaker_stats.items().
Merge(stats, latency, interruptions) ==
    [sp \in DOMAIN stats |->
        LET l == LatencyEntry(latency, sp)
            n == InterruptionEntry(interruptions, sp)
        IN  [total_time |-> stats[sp].total_time,
             word_count |-> stats[sp].word_count,
             segments |-> stats[sp].segments,
             percentage |-> stats[sp].percentage,
             response_latency |-> l.response_latency,
             response_count |-> l.response_count,
             quick_responses_percentage |-> l.quick_responses_percentage,
             times_interrupted |-> n.times_interrupted,
             times_interrupting |-> n.times_interrupting,
             interruption_rate |-> n.interruption_rate]]

\* speaker_stats after lines 252-313, as a function of the segment list.
MergedReport(segs) ==
    Merge(WithPercentages(TalkTime(segs)),
          calculate_per_speaker_response_latency(segs),
          calculate_per_speaker_interruptions(segs))

\* -------------------------------------------------------------- the job
vars == <<pc, segments, num_speakers, speaker_stats, speaker_order, per_speaker_latency,
          per_speaker_interruptions, tip_queue, communication_tips,
          tip_calls, saved_record, status_writes, status_calls, error,
          temp_dir, temp_file, environ, providers, preferred_provider,
          selected_provider, provider_calls, transcript>>

adapter_vars == <<environ, providers, preferred_provider, selected_provider,
                  provider_calls>>
engine_vars == <<segments, num_speakers, speaker_stats, speaker_order, per_speaker_latency,
                 per_speaker_interruptions, tip_queue, adapter_vars, transcript>>
tip_vars == <<communication_tips, tip_calls>>
io_vars == <<saved_record, status_writes, status_calls, error,
            temp_dir, temp_file>>

\* The two hardcoded tips of the except branch of the tip loop.
FallbackTips == <<"Focus on balanced participation in meetings.",
                  "Practice active listening and timely responses.">>
\* Lists of tips the collaborator can return for a speaker: they name the
\* speaker they were written for.
ProviderTips(speaker) == {<<"tip for", speaker>>}

\* -------------------------------------------------------- the LLM adapter
\* An API key is modelled by its length: is_available looks at nothing
\* else.  Absent is None: no argument given, or the variable is unset.
KeyLengths == {Absent, 0, 10, 11}
Environs == [GEMINI_API_KEY : KeyLengths, OPENAI_API_KEY : KeyLengths]
\* The environment of the runs of the metrics engine.
GeminiOnly == [GEMINI_API_KEY |-> 11, OPENAI_API_KEY |-> Absent]
\* Values of the preferred_provider argument.
PreferredArguments == {"auto", "AUTO", "gemini", "OpenAI", "anthropic"}
\* str.lower() on those values and on the providers' names.
Lower(s) ==
    CASE s = "AUTO" -> "auto"
      [] s = "Gemini" -> "gemini"
      [] s = "OpenAI" -> "openai"
      [] OTHER -> s
\* a or b on keys: b when a is None or empty.
KeyOr(a, b) == IF a > 0 THEN a ELSE b

\* _initialize_providers: Gemini, then OpenAI, each when its key is given.
initialize_providers(openai_key, gemini_key, env) ==
    LET o == KeyOr(openai_key, env.OPENAI_API_KEY)
        g == KeyOr(gemini_key, env.GEMINI_API_KEY)
    IN  (IF g > 0 THEN <<[name |-> "Gemini", api_key |-> g]>> ELSE <<>>)
        \o (IF o > 0 THEN <<[name |-> "OpenAI", api_key |-> o]>> ELSE <<>>)

\* BaseProvider.is_available: bool(api_key and len(api_key) > 10).
is_available(provider) == provider.api_key > 0 /\ provider.api_key > 10

\* What get_provider returns when it raises.
Raised == "<raised>"

\* The auto-selection loop from provider i on; consulted lists the
\* providers whose is_available was awaited so far.
RECURSIVE AutoSelect(_, _, _)
AutoSelect(provs, i, consulted) ==
    IF i > Len(provs) THEN [returned |-> Raised, consulted |-> consulted]
    ELSE IF is_available(provs[i])
         THEN [returned |-> provs[i].name,
               consulted |-> Append(consulted, provs[i].name)]
         ELSE AutoSelect(provs, i + 1, Append(consulted, provs[i].name))

\* The loop over the preferred provider, then the auto-selection.
RECURSIVE PreferredSelect(_, _, _, _)
PreferredSelect(provs, preferred, i, consulted) ==
    IF i > Len(provs) THEN AutoSelect(provs, 1, consulted)
    ELSE IF Lower(provs[i].name) = preferred
         THEN IF is_available(provs[i])
              THEN [returned |-> provs[i].name,
                    consulted |-> Append(consulted, provs[i].name)]
              ELSE PreferredSelect(provs, preferred, i + 1,
                                   Append(consulted, provs[i].name))
         ELSE PreferredSelect(provs, preferred, i + 1, consulted)

\* Variant: the selection is made again on every call.
get_providerUncached(provs, preferred, selected) ==
    LET r == IF preferred # "auto"
             THEN PreferredSelect(provs, preferred, 1, <<>>)
             ELSE AutoSelect(provs, 1, <<>>)
    IN  [returned |-> r.returned, consulted |-> r.consulted,
         selected_provider |->
             IF r.returned = Raised THEN None ELSE r.returned]

\* Variant: the preference is not looked at.
get_providerAuto(provs, preferred, selected) ==
    IF selected # None
    THEN [returned |-> selected, consulted |-> <<>>,
          selected_provider |-> selected]
    ELSE LET r == AutoSelect(provs, 1, <<>>)
         IN  [returned |-> r.returned, consulted |-> r.consulted,
              selected_provider |->
                  IF r.returned = Raised THEN None ELSE r.returned]

\* get_provider: what it returns, the providers it consulted and
\* selected_provider afterwards.
get_provider(provs, preferred, selected) ==
    IF selected # None
    THEN [returned |-> selected, consulted |-> <<>>,
          selected_provider |-> selected]
    ELSE LET r == IF preferred # "auto"
                  THEN PreferredSelect(provs, preferred, 1, <<>>)
                  ELSE AutoSelect(provs, 1, <<>>)
         IN  [returned |-> r.returned, consulted |-> r.consulted,
              selected_provider |->
                  IF r.returned = Raised THEN None ELSE r.returned]

\* A call of get_provider as recorded in provider_calls.
GetCall(r) == [op |-> "get_provider", returned |-> r.returned,
               consulted |-> r.consulted]

\* ---- steps 2 and 3: the metrics engine
\* Lines 249-325 hold no await: the talk-time and percentage loops, the two
\* calculators, the merge and LLMAdapter() run as one step of the task.
\* The tip loop that follows iterates speaker_stats.items().
ComputeMetrics ==
    /\ pc = "transcribed"
    /\ per_speaker_latency' = calculate_per_speaker_response_latency(segments)
    /\ per_speaker_interruptions' =
           calculate_per_speaker_interruptions(segments)
    /\ speaker_order' = TalkTime(segments).order
    /\ tip_queue' = speaker_order'
    /\ speaker_stats' = Merge(WithPercentages(TalkTime(segments)),
                              per_speaker_latency', per_speaker_interruptions')
    /\ providers' = initialize_providers(Absent, Absent, environ)
    /\ preferred_provider' = Lower("auto")
    /\ selected_provider' = None
    /\ pc' = "tips"
    /\ UNCHANGED <<segments, num_speakers, tip_vars, io_vars, environ,
                   provider_calls, transcript>>

\* ---- the metrics engine alone, on every transcript within the bounds
\* The task at line 249: the file is downloaded and transcribed, nothing is
\* computed yet.
\* No transcript is being parsed.
NoTranscript == [utterances |-> <<>>, words |-> <<>>]

NoAdapter ==
    /\ providers = <<>>
    /\ preferred_provider = None
    /\ selected_provider = None
    /\ provider_calls = <<>>

AtLine249In(env) ==
    /\ environ = env
    /\ transcript = NoTranscript
    /\ NoAdapter
    /\ pc = "transcribed"
    /\ num_speakers = 0
    /\ speaker_stats = EmptyMap
    /\ speaker_order = <<>>
    /\ per_speaker_latency = EmptyMap
    /\ per_speaker_interruptions = EmptyMap
    /\ tip_queue = <<>>
    /\ communication_tips = EmptyMap
    /\ tip_calls = <<>>
    /\ saved_record = <<>>
    /\ status_writes = <<>>
    /\ status_calls = <<>>
    /\ error = None
    /\ temp_dir = TRUE
    /\ temp_file = TRUE

AtLine249 == AtLine249In(GeminiOnly)

InitEngine ==
    /\ IsTranscriptOf(segments, MaxSegs, MaxEngineTime)
    /\ AtLine249

NextEngine == ComputeMetrics

SpecEngine == InitEngine /\ [][NextEngine]_vars

\* ---- the metrics engine alone, on every transcript a job can be given:
\* shorter lists than above, with finer timestamps
InitJobEngine ==
    /\ IsTranscriptOf(segments, MaxJobSegs, MaxTime)
    /\ AtLine249

NextJobEngine == ComputeMetrics

SpecJobEngine == InitJobEngine /\ [][NextJobEngine]_vars

\* ---- the metrics engine on a round of turns: up to MaxPctSpeakers
\* speakers talk one after the other, each for 0..MaxPctDuration seconds.
PctLabels == <<"S1", "S2", "S3", "S4", "S5", "S6", "S7", "S8">>

\* The start of turn i: the end of turn i - 1.
RECURSIVE TurnStart(_, _)
TurnStart(dur, i) == IF i = 1 THEN 0 ELSE TurnStart(dur, i - 1) + dur[i - 1]

InitPercent ==
    /\ \E k \in 1..MaxPctSpeakers :
         \E dur \in [1..k -> 0..MaxPctDuration] :
           segments = [i \in 1..k |->
                          [start |-> TurnStart(dur, i),
                           end |-> TurnStart(dur, i) + dur[i],
                           speaker |-> PctLabels[i],
                           text |-> <<"w", " ", "w">>]]
    /\ AtLine249

NextPercent == ComputeMetrics

SpecPercent == InitPercent /\ [][NextPercent]_vars

\* ---- the metrics engine on a dialogue: A and B take up to MaxTurns turns
\* of one second each; a turn starts up to MaxGap seconds after the end of
\* the turn before it, or one second before that end.
RECURSIVE DialogueStart(_, _)
DialogueStart(gaps, i) ==
    IF i = 1 THEN 0 ELSE DialogueStart(gaps, i - 1) + 1 + gaps[i]

InitDialogue ==
    /\ \E k \in 1..MaxTurns :
         \E gaps \in [2..k -> -1..MaxGap] :
           segments = [i \in 1..k |->
                          [start |-> DialogueStart(gaps, i),
                           end |-> DialogueStart(gaps, i) + 1,
                           speaker |-> IF i % 2 = 1 THEN "A" ELSE "B",
                           text |-> <<"w", " ", "w">>]]
    /\ AtLine249

NextDialogue == ComputeMetrics

SpecDialogue == InitDialogue /\ [][NextDialogue]_vars

\* ---- the metrics engine on segments that lack fields: any of "start",
\* "end", "speaker" and "text" can be absent, the texts have blanks in front
\* and in a row, and the list is in no particular order.
TalkStamps == {Absent} \cup 0..MaxTalkStamp
TalkSpeakers == {"A", NoSpeaker}
TalkTexts == {AbsentText, <<" ", "w", " ", " ", "w">>}

InitTalkTime ==
    /\ \E k \in 0..MaxTalkSegs :
         \E st \in [1..k -> TalkStamps] : \E en \in [1..k -> TalkStamps] :
           \E sp \in [1..k -> TalkSpeakers] : \E tx \in [1..k -> TalkTexts] :
             segments = [i \in 1..k |->
                            [start |-> st[i], end |-> en[i],
                             speaker |-> sp[i], text |-> tx[i]]]
    /\ AtLine249

NextTalkTime == ComputeMetrics

SpecTalkTime == InitTalkTime /\ [][NextTalkTime]_vars

\* ---- the metrics engine on long segments: up to MaxFloatSegs segments of
\* A and B that start at 0 and last 0 or 1 seconds or the least time
\* to which a second more cannot be added exactly.
FloatEnds == {0, 1, 2 ^ FloatBits}

InitFloat ==
    /\ \E k \in 0..MaxFloatSegs :
         \E en \in [1..k -> FloatEnds] : \E sp \in [1..k -> {"A", "B"}] :
           segments = [i \in 1..k |->
                          [start |-> 0, end |-> en[i], speaker |-> sp[i],
                           text |-> <<"w", " ", "w">>]]
    /\ AtLine249

NextFloat == ComputeMetrics

SpecFloat == InitFloat /\ [][NextFloat]_vars

\* ---- the metrics engine on lists in any order: up to MaxOrderSegs
\* segments, of A from 0 for one second or for the least time to which a
\* second more cannot be added exactly, and of B for one second from 0 or
\* from 1.
MaxOrderSegs == 4
OrderSegments ==
    {[start |-> 0, end |-> 1, speaker |-> "A", text |-> <<"w", " ", "w">>],
     [start |-> 0, end |-> 2 ^ FloatBits, speaker |-> "A",
      text |-> <<"w", " ", "w">>],
     [start |-> 0, end |-> 1, speaker |-> "B", text |-> <<"w", " ", "w">>],
     [start |-> 1, end |-> 2, speaker |-> "B", text |-> <<"w", " ", "w">>]}

InitOrder ==
    /\ \E k \in 0..MaxOrderSegs : segments \in [1..k -> OrderSegments]
    /\ AtLine249

NextOrder == ComputeMetrics

SpecOrder == InitOrder /\ [][NextOrder]_vars

\* ---- the whole job: process_job_task
\* The environments of the job: no key, a Gemini key, an OpenAI key.
JobEnvirons ==
    {e \in Environs : e.GEMINI_API_KEY \in {Absent, 11}
                      /\ e.OPENAI_API_KEY \in {Absent, 11}
                      /\ Absent \in {e.GEMINI_API_KEY, e.OPENAI_API_KEY}}

\* The state after lines 211-212: the client is built, nothing else exists.
Init ==
    /\ environ \in JobEnvirons
    /\ transcript = NoTranscript
    /\ NoAdapter
    /\ pc = "start"
    /\ segments = <<>>
    /\ num_speakers = 0
    /\ speaker_stats = EmptyMap
    /\ speaker_order = <<>>
    /\ per_speaker_latency = EmptyMap
    /\ per_speaker_interruptions = EmptyMap
    /\ tip_queue = <<>>
    /\ communication_tips = EmptyMap
    /\ tip_calls = <<>>
    /\ saved_record = <<>>
    /\ status_writes = <<>>
    /\ status_calls = <<>>
    /\ error = None
    /\ temp_dir = FALSE
    /\ temp_file = FALSE

\* Lines 216-223: mkdtemp, then download_file.  mkdtemp raises (no
\* directory), or the download raises before the destination is opened
\* (raise_for_status, lines 59-60), or while it is written, or completes.
DownloadOutcomes ==
    {"ok", "raised_in_mkdtemp", "raised_before_open", "raised_while_writing"}
Download ==
    /\ pc = "start"
    /\ \E outcome \in DownloadOutcomes :
         /\ temp_dir' = (outcome # "raised_in_mkdtemp")
         /\ temp_file' = (outcome \in {"ok", "raised_while_writing"})
         /\ pc' = IF outcome = "ok" THEN "downloaded" ELSE "except"
         /\ error' = IF outcome = "ok" THEN error ELSE outcome
    /\ UNCHANGED <<engine_vars, tip_vars, saved_record,
                   status_writes, status_calls>>

\* Lines 234-252: the transcription raises, or returns a result that is
\* empty or carries "error" (line 239 raises), or returns segments.  The
\* result is awaited (line 235): a transcription service whose transcribe is
\* a plain function, as that of services/audio/transcription.py, makes the
\* await raise TypeError, which is the first case; one whose transcribe is a
\* coroutine function reaches the other two.  The segments of
\* transcription.py carry no "speaker" key.  Line 241 reads the result's
\* "num_speakers" with .get(..., 0): the result of transcription.py
\* (158-163) has the keys text, segments, language and duration only.
Transcribe ==
    /\ pc = "downloaded"
    /\ \/ /\ pc' = "except"
          /\ error' = "Transcription failed"
          /\ UNCHANGED <<segments, num_speakers>>
       \/ /\ IsTranscriptOf(segments', 2, MaxRunTime)
          /\ num_speakers' = NumberOr0(Absent)
          /\ pc' = "transcribed"
          /\ UNCHANGED error
    /\ UNCHANGED <<speaker_stats, speaker_order, per_speaker_latency,
                   per_speaker_interruptions, tip_queue, tip_vars,
                   saved_record, status_writes, status_calls,
                   temp_dir, temp_file, adapter_vars, transcript>>

\* Variant: the arguments as read before the merge, when the statistics
\* have no latency or interruption fields and the .get defaults are passed.
TipArgumentsUnmerged(speaker, stats) ==
    [speaker_label |-> speaker,
     talk_time_percentage |-> stats[speaker].percentage,
     word_count |-> stats[speaker].word_count,
     segments_count |-> stats[speaker].segments,
     avg_response_latency |-> 0,
     times_interrupted |-> 0,
     times_interrupting |-> 0,
     total_speakers |-> Cardinality(DOMAIN stats)]

\* The keyword arguments of generate_speaker_communication_tips that come
\* from the speaker's statistics.
TipArguments(speaker, stats) ==
    [speaker_label |-> speaker,
     talk_time_percentage |-> stats[speaker].percentage,
     word_count |-> stats[speaker].word_count,
     segments_count |-> stats[speaker].segments,
     avg_response_latency |-> stats[speaker].response_latency,
     times_interrupted |-> stats[speaker].times_interrupted,
     times_interrupting |-> stats[speaker].times_interrupting,
     total_speakers |-> Cardinality(DOMAIN stats)]

\* Variant: the speaker gets what the call returned even when it raised.
TipsAfterReturned(raised, returned) == returned

\* stats["communication_tips"] after one pass of the tip loop: what the
\* collaborator returned, or the fallback when get_provider or the call
\* raised.
TipsAfter(raised, returned) == IF raised THEN FallbackTips ELSE returned

\* Lines 328-354: one pass of the tip loop, for the next speaker.
GenerateTips ==
    /\ pc = "tips"
    /\ tip_queue # <<>>
    /\ LET speaker == Head(tip_queue)
           got == get_provider(providers, preferred_provider,
                               selected_provider)
       IN  /\ selected_provider' = got.selected_provider
           /\ provider_calls' = Append(provider_calls, GetCall(got))
           /\ \E raised \in BOOLEAN :
              \E returned \in ProviderTips(speaker) \cup {<<>>} :
                /\ got.returned = Raised => raised
                /\ raised => returned = <<>>
                /\ ~raised => returned \in ProviderTips(speaker)
                /\ communication_tips' =
                       Put(communication_tips, speaker,
                           TipsAfter(raised, returned))
                /\ tip_calls' = Append(tip_calls,
                       [args |-> TipArguments(speaker, speaker_stats),
                        provider |-> got.selected_provider,
                        raised |-> raised,
                        returned |-> returned])
    /\ tip_queue' = Tail(tip_queue)
    /\ UNCHANGED <<pc, segments, num_speakers, speaker_stats, speaker_order,
                   per_speaker_latency, per_speaker_interruptions, io_vars,
                   environ, providers, preferred_provider,
                   transcript>>

\* update_job_status and save_analysis_results (supabase_client.py 34-61):
\* the request is not sent or is refused (raises, nothing written), is
\* applied and answered, or is applied and reading the answer raises.
StatusOutcomes == {"written", "raised_unwritten", "raised_written"}
StatusAfter(writes, status, outcome) ==
    IF outcome = "raised_unwritten" THEN writes ELSE Append(writes, status)

\* Variant: a failure of the save is swallowed and the job goes on to the
\* status update.
SaveResultsSwallowed ==
    /\ pc = "tips"
    /\ tip_queue = <<>>
    /\ \E outcome \in StatusOutcomes :
         saved_record' = StatusAfter(saved_record,
                 [speaker_stats |-> speaker_stats,
                  communication_tips |-> communication_tips,
                  communication_metrics |-> None], outcome)
    /\ pc' = "saved"
    /\ UNCHANGED <<engine_vars, tip_vars, status_writes, status_calls,
                   error, temp_dir, temp_file>>

\* Lines 362-378: build the record and save it; the save can raise.  The
\* record's "speaker_stats" is the mapping with each speaker's tips in it;
\* its "communication_metrics" is None ("Metrics now per-speaker").
SaveResults ==
    /\ pc = "tips"
    /\ tip_queue = <<>>
    /\ \E outcome \in StatusOutcomes :
         /\ saved_record' = StatusAfter(saved_record,
                 [speaker_stats |-> speaker_stats,
                  communication_tips |-> communication_tips,
                  communication_metrics |-> None], outcome)
         /\ pc' = IF outcome = "written" THEN "saved" ELSE "except"
         /\ error' = IF outcome = "written" THEN error ELSE "save failed"
    /\ UNCHANGED <<engine_vars, tip_vars, status_writes, status_calls,
                   temp_dir, temp_file>>

\* Variant: the update to "failed" is made without the error message.
StatusCallWithoutError(status, message) == [status |-> status, error |-> None]

\* The arguments of a call update_job_status(job_id, status, message).
StatusCall(status, message) == [status |-> status, error |-> message]

\* Line 383.
UpdateCompleted ==
    /\ pc = "saved"
    /\ status_calls' = Append(status_calls, StatusCall("completed", None))
    /\ \E outcome \in StatusOutcomes :
         /\ status_writes' = StatusAfter(status_writes, "completed", outcome)
         /\ pc' = IF outcome = "written" THEN "finally" ELSE "except"
         /\ error' = IF outcome = "written" THEN error ELSE "update failed"
    /\ UNCHANGED <<engine_vars, tip_vars, saved_record,
                   temp_dir, temp_file>>

\* Lines 390-403: the except branch; a failure of the update is caught.
HandleFailure ==
    /\ pc = "except"
    /\ status_calls' = Append(status_calls, StatusCall("failed", error))
    /\ \E outcome \in StatusOutcomes :
         status_writes' = StatusAfter(status_writes, "failed", outcome)
    /\ pc' = "finally"
    /\ UNCHANGED <<engine_vars, tip_vars, saved_record, error,
                   temp_dir, temp_file>>

\* Lines 405-416: the file is unlinked and its directory removed only when
\* the file exists.
Cleanup ==
    /\ pc = "finally"
    /\ temp_file' = FALSE
    /\ temp_dir' = IF temp_file THEN FALSE ELSE temp_dir
    /\ pc' = "done"
    /\ UNCHANGED <<engine_vars, tip_vars, saved_record,
                   status_writes, status_calls, error>>

\* The job from line 249 on, up to the save, on transcripts of at most two
\* segments with timestamps up to MaxSummaryTime.
InitSummary ==
    /\ IsTranscriptOf(segments, 2, MaxSummaryTime)
    /\ AtLine249

NextSummary ==
    \/ ComputeMetrics
    \/ GenerateTips
    \/ SaveResults

SpecSummary == InitSummary /\ [][NextSummary]_vars

\* ---- the adapter on its own, and in the job from line 249 on
MaxAdapterCalls == 3
MaxAdapterTime == 1

\* LLMAdapter(openai_api_key, gemini_api_key, preferred_provider).
InitAdapter ==
    \/ /\ environ \in Environs
       /\ \E openai_api_key \in KeyLengths, gemini_api_key \in KeyLengths,
             preferred \in PreferredArguments :
            /\ providers = initialize_providers(openai_api_key,
                                                gemini_api_key, environ)
            /\ preferred_provider = Lower(preferred)
       /\ selected_provider = None
       /\ provider_calls = <<>>
       /\ transcript = NoTranscript
       /\ pc = "adapter"
       /\ segments = <<>>
       /\ num_speakers = 0
       /\ speaker_stats = EmptyMap
       /\ speaker_order = <<>>
       /\ per_speaker_latency = EmptyMap
       /\ per_speaker_interruptions = EmptyMap
       /\ tip_queue = <<>>
       /\ communication_tips = EmptyMap
       /\ tip_calls = <<>>
       /\ saved_record = <<>>
       /\ status_writes = <<>>
       /\ status_calls = <<>>
       /\ error = None
       /\ temp_dir = FALSE
       /\ temp_file = FALSE
    \/ /\ IsTranscriptOf(segments, 2, MaxAdapterTime)
       /\ \E env \in JobEnvirons : AtLine249In(env)

\* await adapter.get_provider()
GetProvider ==
    /\ pc = "adapter"
    /\ Len(provider_calls) < MaxAdapterCalls
    /\ LET got == get_provider(providers, preferred_provider,
                               selected_provider)
       IN  /\ selected_provider' = got.selected_provider
           /\ provider_calls' = Append(provider_calls, GetCall(got))
    /\ UNCHANGED <<pc, segments, num_speakers, speaker_stats, speaker_order,
                   per_speaker_latency, per_speaker_interruptions, tip_queue,
                   tip_vars, io_vars, environ, providers, preferred_provider,
                   transcript>>

\* adapter.reset_provider()
ResetProvider ==
    /\ pc = "adapter"
    /\ Len(provider_calls) < MaxAdapterCalls
    /\ selected_provider' = None
    /\ provider_calls' = Append(provider_calls,
           [op |-> "reset_provider", returned |-> None, consulted |-> <<>>])
    /\ UNCHANGED <<pc, segments, num_speakers, speaker_stats, speaker_order,
                   per_speaker_latency, per_speaker_interruptions, tip_queue,
                   tip_vars, io_vars, environ, providers, preferred_provider,
                   transcript>>

NextAdapter ==
    \/ GetProvider
    \/ ResetProvider
    \/ ComputeMetrics
    \/ GenerateTips

SpecAdapter == InitAdapter /\ [][NextAdapter]_vars

\* ---- the AssemblyAI provider: _parse_transcript
\* Times of the transcript are in milliseconds; x / 1000.0 is the same
\* number read in thousandths of a second.
MaxWords == 3
MaxWordTime == 1
\* The text of the i-th word of a transcript.
WordTexts == <<"w1", "w2", "w3", "w4", "w5">>
\* word.speaker: a label, an empty label, or None / no such attribute.
WordSpeakers == {NoSpeaker, "", "A", "B", "00"}

\* f"SPEAKER_{word.speaker}" if hasattr(word, "speaker") and word.speaker
\* else "SPEAKER_00"
SpeakerLabel(speaker) ==
    CASE speaker = "A" -> "SPEAKER_A"
      [] speaker = "B" -> "SPEAKER_B"
      [] speaker = "00" -> "SPEAKER_00"
      [] OTHER -> "SPEAKER_00"

\* f"SPEAKER_{utterance.speaker}"
UtteranceLabel(speaker) ==
    CASE speaker = "A" -> "SPEAKER_A"
      [] speaker = "B" -> "SPEAKER_B"
      [] speaker = "00" -> "SPEAKER_00"
      [] speaker = "" -> "SPEAKER_"
      [] OTHER -> "SPEAKER_None"

\* The dictionary of a word in a segment's words.
WordDict(word) == [word |-> word.text, start |-> word.start, end |-> word.end]

\* Variant: every word opens a segment of its own.
RECURSIVE FoldWordsUngrouped(_, _, _, _)
FoldWordsUngrouped(words, i, folded, current_segment) ==
    IF i > Len(words) THEN folded \o current_segment
    ELSE FoldWordsUngrouped(words, i + 1, folded \o current_segment,
             <<[start |-> words[i].start, end |-> words[i].end,
                text |-> <<words[i].text>>,
                speaker |-> SpeakerLabel(words[i].speaker),
                words |-> <<WordDict(words[i])>>]>>)

\* The loop over transcript.words from word i on; current_segment is the
\* empty sequence for None, folded the segments appended so far.  A text is
\* the sequence of its words, joined by blanks.
RECURSIVE FoldWords(_, _, _, _)
FoldWords(words, i, folded, current_segment) ==
    IF i > Len(words) THEN folded \o current_segment
    ELSE LET word == words[i]
             speaker_label == SpeakerLabel(word.speaker)
         IN  IF current_segment = <<>>
                \/ current_segment[1].speaker # speaker_label
             THEN FoldWords(words, i + 1, folded \o current_segment,
                      <<[start |-> word.start, end |-> word.end,
                         text |-> <<word.text>>,
                         speaker |-> speaker_label,
                         words |-> <<WordDict(word)>>]>>)
             ELSE FoldWords(words, i + 1, folded,
                      <<[current_segment[1] EXCEPT
                           !.end = word.end,
                           !.text = @ \o <<" ", word.text>>,
                           !.words = Append(@, WordDict(word))]>>)

\* The segment of an utterance.
UtteranceSegment(utterance) ==
    [start |-> utterance.start, end |-> utterance.end,
     text |-> utterance.text, speaker |-> UtteranceLabel(utterance.speaker),
     words |-> [i \in 1..Len(utterance.words) |-> WordDict(utterance.words[i])]]

\* _parse_transcript: the segments and num_speakers of its result.
parse_transcript(t) ==
    IF t.utterances # <<>>
    THEN [segments |-> [i \in 1..Len(t.utterances) |->
                           UtteranceSegment(t.utterances[i])],
          num_speakers |-> Cardinality(
              {UtteranceLabel(t.utterances[i].speaker) :
                  i \in 1..Len(t.utterances)})]
    ELSE [segments |-> FoldWords(t.words, 1, <<>>, <<>>),
          num_speakers |-> Cardinality(
              {SpeakerLabel(t.words[i].speaker) : i \in 1..Len(t.words)})]

\* tr is a transcript without utterances whose word list has at most n
\* words with timestamps up to t, in the order spoken.
IsWordTranscript(tr, n, t) ==
    \E k \in 0..n :
      \E st \in [1..k -> 0..t] :
        /\ \A i \in 1..k : i < k => st[i] <= st[i + 1]
        /\ \E en \in [1..k -> 0..t] :
             /\ \A i \in 1..k : en[i] >= st[i]
             /\ \E sp \in [1..k -> WordSpeakers] :
                  tr = [utterances |-> <<>>,
                        words |-> [i \in 1..k |->
                           [text |-> WordTexts[i], start |-> st[i],
                            end |-> en[i], speaker |-> sp[i]]]]

\* A transcript without utterances and with any word list, or one with a
\* single utterance.
InitParse ==
    /\ \/ IsWordTranscript(transcript, MaxWords, MaxWordTime)
       \/ \E ws \in {<<>>, <<[text |-> "w1", start |-> 0, end |-> 1,
                               speaker |-> "A"]>>} :
          \E speaker \in {"A", NoSpeaker} :
            transcript = [utterances |->
                             <<[start |-> 0, end |-> 1, text |-> <<"w1">>,
                                speaker |-> speaker, words |-> ws]>>,
                          words |-> ws]
    /\ environ = GeminiOnly
    /\ NoAdapter
    /\ pc = "parse"
    /\ segments = <<>>
    /\ num_speakers = 0
    /\ speaker_stats = EmptyMap
    /\ speaker_order = <<>>
    /\ per_speaker_latency = EmptyMap
    /\ per_speaker_interruptions = EmptyMap
    /\ tip_queue = <<>>
    /\ communication_tips = EmptyMap
    /\ tip_calls = <<>>
    /\ saved_record = <<>>
    /\ status_writes = <<>>
    /\ status_calls = <<>>
    /\ error = None
    /\ temp_dir = FALSE
    /\ temp_file = FALSE

\* self._parse_transcript(transcript)
ParseTranscript ==
    /\ pc = "parse"
    /\ LET result == parse_transcript(transcript)
       IN  /\ segments' = result.segments
           /\ num_speakers' = result.num_speakers
    /\ pc' = "parsed"
    /\ UNCHANGED <<speaker_stats, speaker_order, per_speaker_latency,
                   per_speaker_interruptions, tip_queue, tip_vars, io_vars,
                   adapter_vars, transcript>>

NextParse == ParseTranscript

SpecParse == InitParse /\ [][NextParse]_vars

Next ==
    \/ Download
    \/ Transcribe
    \/ ComputeMetrics
    \/ GenerateTips
    \/ SaveResults
    \/ UpdateCompleted
    \/ HandleFailure
    \/ Cleanup

Spec == Init /\ [][Next]_vars

\* ======================================================================
\* Properties.  The definitions below state what is claimed of the engine
\* in terms of the segment list and of what the job computed from it.
\* ======================================================================
\* The engine has run and the tip loop has not started.
Merged == pc = "tips" /\ tip_calls = <<>>

Indexes == 1..Len(segments)
\* Index pairs in input order.
OrderedPairs == {p \in Indexes \X Indexes : p[1] < p[2]}
Duration(i) == segments[i].end - segments[i].start
\* The two intervals share more than a point.
StrictOverlap(i, j) ==
    Max(segments[i].start, segments[j].start)
        < Min(segments[i].end, segments[j].end)
DifferentSpeakers(i, j) == segments[i].speaker # segments[j].speaker
\* Pairs that are an interruption event: p[2]'s speaker interrupts p[1]'s.
Events ==
    {p \in OrderedPairs :
        DifferentSpeakers(p[1], p[2]) /\ StrictOverlap(p[1], p[2])}
SortedByStart ==
    \A i \in Indexes : \A j \in Indexes :
        i < j => segments[i].start <= segments[j].start
\* The raw labels of the list (None for a segment without one).
SpeakersOf == {segments[i].speaker : i \in Indexes}

TimesInterrupted(sp) ==
    IF sp \in DOMAIN per_speaker_interruptions
    THEN per_speaker_interruptions[sp].times_interrupted ELSE 0
TimesInterrupting(sp) ==
    IF sp \in DOMAIN per_speaker_interruptions
    THEN per_speaker_interruptions[sp].times_interrupting ELSE 0

RECURSIVE SumInterrupted(_)
SumInterrupted(S) ==
    IF S = {} THEN 0
    ELSE LET x == CHOOSE y \in S : TRUE
         IN  TimesInterrupted(x) + SumInterrupted(S \ {x})
RECURSIVE SumInterrupting(_)
SumInterrupting(S) ==
    IF S = {} THEN 0
    ELSE LET x == CHOOSE y \in S : TRUE
         IN  TimesInterrupting(x) + SumInterrupting(S \ {x})

\* C1: the interruption events are exactly the index pairs i < j of
\* different speakers with strictly overlapping intervals; each adds 1 to
\* times_interrupted of segment i's speaker and 1 to times_interrupting of
\* segment j's speaker; same-speaker pairs never count; the two sums over
\* all speakers are equal (both are the number of events).
C1_InterruptionsArePairs ==
    (Merged /\ Len(segments) >= 2) =>
        /\ DOMAIN per_speaker_interruptions = SpeakersOf
        /\ \A sp \in SpeakersOf :
             /\ TimesInterrupted(sp) =
                    Cardinality({p \in Events : segments[p[1]].speaker = sp})
             /\ TimesInterrupting(sp) =
                    Cardinality({p \in Events : segments[p[2]].speaker = sp})
        /\ SumInterrupted(SpeakersOf) = Cardinality(Events)
        /\ SumInterrupting(SpeakersOf) = Cardinality(Events)

\* A list with an overlapping pair of one speaker, an overlapping pair of
\* two speakers that are not adjacent, and the calculator has run.
C1_Witness ==
    /\ Merged
    /\ Len(segments) = 3
    /\ \E p \in OrderedPairs :
         ~DifferentSpeakers(p[1], p[2]) /\ StrictOverlap(p[1], p[2])
    /\ <<1, 3>> \in Events
    /\ <<1, 2>> \notin Events
    /\ Cardinality(Events) = 2

\* ---- percentages
\* The segment's key in the report: "Unknown" stands for a missing label.
ReportKey(i) ==
    IF segments[i].speaker = NoSpeaker THEN "Unknown" ELSE segments[i].speaker
TotalTalkTimeIsPositive == \E i \in Indexes : Duration(i) > 0
\* The sum of the reported percentages, in tenths of a percent.
RECURSIVE SumPercentages(_)
SumPercentages(order) ==
    IF order = <<>> THEN 0
    ELSE speaker_stats[Head(order)].percentage + SumPercentages(Tail(order))
Distance(a, b) == IF a >= b THEN a - b ELSE b - a

\* C2, as stated: when the total talk time is positive, the sum of the
\* reported percentages differs from 100.0 by at most 0.1, for any number of
\* speakers.
C2_SumWithinOneTenth ==
    (Merged /\ TotalTalkTimeIsPositive) =>
        Distance(SumPercentages(speaker_order), 1000) <= 1

\* C2, amended: when the total talk time is positive, the sum of the
\* reported percentages differs from 100.0 by at most 0.05 times the number
\* of speakers (each percentage is off by at most half a tenth), which is at
\* most 0.1 for up to three speakers.
C2_SumWithinHalfTenthPerSpeaker ==
    (Merged /\ TotalTalkTimeIsPositive) =>
        /\ 2 * Distance(SumPercentages(speaker_order), 1000)
               <= Len(speaker_order)
        /\ Len(speaker_order) <= 3 =>
               Distance(SumPercentages(speaker_order), 1000) <= 1

\* Six speakers with equal talk time: each is reported 16.7, the sum is
\* 100.2.
C2_Witness ==
    /\ Merged
    /\ Len(speaker_order) = 6
    /\ \A i \in Indexes : Duration(i) = 1
    /\ \A sp \in DOMAIN speaker_stats : speaker_stats[sp].percentage = 167
    /\ SumPercentages(speaker_order) = 1002


\* ---- response latency, stated on the segment list
\* The gap before segment k.
GapBefore(k) == segments[k].start - segments[k - 1].end
\* Segment k answers segment k - 1: the previous speaker is set and not
\* empty, differs from the speaker of k, and the gap is not negative.
IsResponse(k) ==
    /\ k >= 2
    /\ segments[k - 1].speaker # NoSpeaker
    /\ segments[k - 1].speaker # ""
    /\ segments[k - 1].speaker # segments[k].speaker
    /\ GapBefore(k) >= 0
ResponsesOf(sp) == {k \in Indexes : IsResponse(k) /\ segments[k].speaker = sp}
RECURSIVE SumGaps(_)
SumGaps(K) ==
    IF K = {} THEN 0
    ELSE LET k == CHOOSE x \in K : TRUE
         IN  GapBefore(k) + SumGaps(K \ {k})
\* v is x / n rounded to the nearest integer (either way on a tie).
IsRounded(v, x, n) == 2 * (v * n - x) <= n /\ 2 * (x - v * n) <= n

LatencyOf(sp) ==
    IF sp \in DOMAIN per_speaker_latency
    THEN per_speaker_latency[sp]
    ELSE [average_seconds |-> 0, response_count |-> 0,
          quick_responses_count |-> 0, quick_responses_percentage |-> 0]
\* Segment k follows a segment of a different speaker, both labels set and
\* non-empty, and starts before that segment ends.
NegativeChange(k) ==
    /\ k >= 2
    /\ segments[k].speaker \notin {NoSpeaker, ""}
    /\ segments[k - 1].speaker \notin {NoSpeaker, ""}
    /\ segments[k - 1].speaker # segments[k].speaker
    /\ GapBefore(k) < 0
NegativeChanges == {k \in Indexes : NegativeChange(k)}
\* The latency statistics of every speaker count the non-negative gaps only.
NegativeGapsExcluded ==
    \A k \in NegativeChanges :
        LET sp == segments[k].speaker
            counted == ResponsesOf(sp)
            quick == {j \in counted : GapBefore(j) < 1}
            l == LatencyOf(sp)
        IN  /\ k \notin counted
            /\ l.response_count = Cardinality(counted)
            /\ l.quick_responses_count = Cardinality(quick)
            /\ l.average_seconds >= 0
            /\ counted # {} =>
                  /\ IsRounded(l.average_seconds, 100 * SumGaps(counted),
                               Cardinality(counted))
                  /\ IsRounded(l.quick_responses_percentage,
                               1000 * Cardinality(quick), Cardinality(counted))

\* C4, as stated: in a start-ordered list a negative gap between consecutive
\* segments of different non-empty speakers is excluded from the latency
\* statistics, and the pair is counted as an interruption of the first
\* speaker by the second.
C4_NegativeGapIsInterruption ==
    (Merged /\ SortedByStart) =>
        /\ NegativeGapsExcluded
        /\ \A sp \in SpeakersOf :
             /\ TimesInterrupting(sp) >=
                    Cardinality({k \in NegativeChanges :
                                    segments[k].speaker = sp})
             /\ TimesInterrupted(sp) >=
                    Cardinality({k \in NegativeChanges :
                                    segments[k - 1].speaker = sp})

\* C4, amended: the negative gap is excluded from the latency statistics;
\* the pair is counted as an interruption of the first speaker by the second
\* when the second segment has a positive length, and is counted neither as
\* a response nor as an interruption when it has zero length.
C4_NegativeGapIsInterruptionUnlessEmpty ==
    (Merged /\ SortedByStart) =>
        /\ NegativeGapsExcluded
        /\ \A k \in NegativeChanges :
             <<k - 1, k>> \in Events <=> Duration(k) > 0
        /\ \A sp \in SpeakersOf :
             /\ TimesInterrupting(sp) >=
                    Cardinality({k \in NegativeChanges :
                        segments[k].speaker = sp /\ Duration(k) > 0})
             /\ TimesInterrupted(sp) >=
                    Cardinality({k \in NegativeChanges :
                        segments[k - 1].speaker = sp /\ Duration(k) > 0})
             /\ TimesInterrupting(sp) <=
                    Cardinality({p \in OrderedPairs :
                        /\ segments[p[2]].speaker = sp
                        /\ DifferentSpeakers(p[1], p[2])
                        /\ ~(/\ p[2] = p[1] + 1
                              /\ NegativeChange(p[2])
                              /\ Duration(p[2]) = 0)})

\* B starts one second before A ends and speaks for a second: no latency is
\* recorded for B, and B interrupted A once.
C4_Witness ==
    /\ Merged
    /\ Len(segments) = 2
    /\ segments[1].speaker = "A" /\ segments[2].speaker = "B"
    /\ GapBefore(2) = -1
    /\ Duration(2) = 1
    /\ "B" \notin DOMAIN per_speaker_latency
    /\ TimesInterrupting("B") = 1
    /\ TimesInterrupted("A") = 1

\* C5: the interrupter is the speaker of the segment later in the input and
\* the interrupted speaker that of the earlier one; so on input ordered by
\* start ascending the interrupter's segment never starts before the
\* interrupted one's: each speaker's counts are the overlapping pairs of
\* different speakers in which their segment starts later (or, on equal
\* starts, comes later), respectively earlier.
StartsAfter(a, b) ==
    \/ segments[a].start > segments[b].start
    \/ segments[a].start = segments[b].start /\ a > b
Overlapping == {p \in Indexes \X Indexes :
                   /\ p[1] # p[2]
                   /\ DifferentSpeakers(p[1], p[2])
                   /\ StrictOverlap(p[1], p[2])}
C5_InterrupterSpeaksLater ==
    (Merged /\ Len(segments) >= 2 /\ SortedByStart) =>
        \A sp \in SpeakersOf :
            /\ TimesInterrupting(sp) =
                   Cardinality({p \in Overlapping :
                       segments[p[1]].speaker = sp /\ StartsAfter(p[1], p[2])})
            /\ TimesInterrupted(sp) =
                   Cardinality({p \in Overlapping :
                       segments[p[1]].speaker = sp /\ StartsAfter(p[2], p[1])})

\* Ordered input in which B starts while A speaks: B interrupts, A is
\* interrupted, and not the other way round.
C5_Witness ==
    /\ Merged
    /\ SortedByStart
    /\ Len(segments) = 2
    /\ segments[1].speaker = "A" /\ segments[2].speaker = "B"
    /\ segments[1].start < segments[2].start
    /\ StrictOverlap(1, 2)
    /\ TimesInterrupting("B") = 1 /\ TimesInterrupted("A") = 1
    /\ TimesInterrupting("A") = 0 /\ TimesInterrupted("B") = 0

\* C6: a pair of segments of different speakers that exactly touch
\* (end_i = start_j) or of which one has zero length is never counted: each
\* speaker's counts are at most the number of the other pairs they are in.
Touching(i, j) ==
    segments[i].end = segments[j].start \/ segments[j].end = segments[i].start
Countable ==
    {p \in OrderedPairs :
        /\ DifferentSpeakers(p[1], p[2])
        /\ ~Touching(p[1], p[2])
        /\ Duration(p[1]) > 0
        /\ Duration(p[2]) > 0}
C6_TouchingIsNoInterruption ==
    Merged =>
        \A sp \in SpeakersOf :
            /\ TimesInterrupted(sp) <=
                   Cardinality({p \in Countable : segments[p[1]].speaker = sp})
            /\ TimesInterrupting(sp) <=
                   Cardinality({p \in Countable : segments[p[2]].speaker = sp})

\* A zero-length segment of B lies inside A's segment: nothing is counted
\* for either.
C6_Witness ==
    /\ Merged
    /\ Len(segments) = 2
    /\ segments[1].speaker = "A" /\ Duration(1) = 2
    /\ segments[2].speaker = "B" /\ Duration(2) = 0 /\ segments[2].start = 1
    /\ DOMAIN per_speaker_interruptions = {"A", "B"}
    /\ \A sp \in SpeakersOf :
         TimesInterrupted(sp) = 0 /\ TimesInterrupting(sp) = 0

\* ---- the tip loop
\* Call n of the tip loop is for the n-th speaker of the report, with that
\* speaker's statistics as they are now; the speaker's tips are the two
\* fallback strings when the call raised and what it returned otherwise.
TipCallIsHandled(n) ==
    LET call == tip_calls[n]
        speaker == speaker_order[n]
    IN  /\ call.args.speaker_label = speaker
        /\ speaker \in DOMAIN speaker_stats
        /\ call.args.talk_time_percentage = speaker_stats[speaker].percentage
        /\ call.args.word_count = speaker_stats[speaker].word_count
        /\ call.args.segments_count = speaker_stats[speaker].segments
        /\ call.args.avg_response_latency =
               speaker_stats[speaker].response_latency
        /\ call.args.times_interrupted =
               speaker_stats[speaker].times_interrupted
        /\ call.args.times_interrupting =
               speaker_stats[speaker].times_interrupting
        /\ speaker \in DOMAIN communication_tips
        /\ communication_tips[speaker] =
               IF call.raised
               THEN <<"Focus on balanced participation in meetings.",
                      "Practice active listening and timely responses.">>
               ELSE call.returned

\* C7: a tip call that fails gives its speaker exactly the two fallback
\* strings and leaves the speaker's statistics as computed; the loop goes on
\* to the remaining speakers (the job fails only with the loop finished), the
\* other speakers keep what the collaborator returned for them, the save is
\* reached, and every speaker of a saved record has tips.
C7_TipFailureIsLocal ==
    /\ Len(tip_calls) <= Len(speaker_order)
    /\ \A n \in 1..Len(tip_calls) : TipCallIsHandled(n)
    /\ DOMAIN communication_tips = {speaker_order[n] : n \in 1..Len(tip_calls)}
    /\ (pc = "tips" /\ tip_queue # <<>>) => ENABLED GenerateTips
    /\ (pc = "tips" /\ tip_queue = <<>>) => ENABLED SaveResults
    /\ (pc \in {"saved", "finally", "done"} \/ (pc = "except" /\ tip_calls # <<>>))
           => (tip_queue = <<>> /\ Len(tip_calls) = Len(speaker_order))
    /\ \A r \in 1..Len(saved_record) :
         /\ saved_record[r].speaker_stats = speaker_stats
         /\ DOMAIN saved_record[r].communication_tips = DOMAIN speaker_stats
         /\ saved_record[r].communication_tips = communication_tips

\* A record is saved for speakers A and B: the call for A raised and A has
\* the fallback strings, B has the tips returned for B.
C7_Witness ==
    /\ Len(saved_record) = 1
    /\ speaker_order = <<"A", "B">>
    /\ tip_calls[1].raised /\ ~tip_calls[2].raised
    /\ saved_record[1].communication_tips["A"] =
           <<"Focus on balanced participation in meetings.",
             "Practice active listening and timely responses.">>
    /\ saved_record[1].communication_tips["B"] = <<"tip for", "B">>
    /\ saved_record[1].speaker_stats["A"].times_interrupted = 1

\* ---- segments without a speaker label
\* C8, as stated: the segments without a speaker label are attributed to
\* "Unknown" in all three calculators, so the "Unknown" entry of the merged
\* report carries their talk time, their responses and their interruption
\* counts.
C8_UnknownCarriesItsSegments ==
    (Merged /\ Len(segments) >= 2 /\ NoSpeaker \in SpeakersOf) =>
        /\ "Unknown" \in DOMAIN speaker_stats
        /\ speaker_stats["Unknown"].segments =
               Cardinality({i \in Indexes : segments[i].speaker = NoSpeaker})
        /\ speaker_stats["Unknown"].response_count =
               Cardinality(ResponsesOf(NoSpeaker))
        /\ speaker_stats["Unknown"].times_interrupted =
               Cardinality({p \in Events : segments[p[1]].speaker = NoSpeaker})
        /\ speaker_stats["Unknown"].times_interrupting =
               Cardinality({p \in Events : segments[p[2]].speaker = NoSpeaker})

\* ---- one more segment, of a new speaker
InsertAt(segs, pos, new) ==
    SubSeq(segs, 1, pos) \o <<new>> \o SubSeq(segs, pos + 1, Len(segs))
\* The interval of new shares at most an end point with that of segment i.
DisjointFrom(new, i) ==
    new.end <= segments[i].start \/ segments[i].end <= new.start
\* The segments that can be added: of a label not in the list, disjoint from
\* every segment of it.
Addable ==
    {new \in Segments :
        /\ new.speaker \notin SpeakersOf
        /\ \A i \in Indexes : DisjointFrom(new, i)}

\* C9: adding one segment of a speaker label not yet present, disjoint from
\* every existing segment, at any position of the list, leaves
\* times_interrupted and times_interrupting of every existing speaker as they
\* are in the merged report; also for lists of fewer than 2 segments.
C9_DisjointNewSpeakerChangesNothing ==
    Merged =>
        \A new \in Addable : \A pos \in 0..Len(segments) :
            LET report == MergedReport(InsertAt(segments, pos, new))
            IN  \A sp \in DOMAIN speaker_stats :
                    /\ sp \in DOMAIN report
                    /\ report[sp].times_interrupted =
                           speaker_stats[sp].times_interrupted
                    /\ report[sp].times_interrupting =
                           speaker_stats[sp].times_interrupting

\* B interrupted A once; a one-second segment of "" that touches theirs can
\* be added in front, and the report of the longer list has the same counts
\* for A and B and none for "".
C9_Witness ==
    /\ Merged
    /\ Len(segments) = 2
    /\ DOMAIN speaker_stats = {"A", "B"}
    /\ speaker_stats["A"].times_interrupted = 1
    /\ speaker_stats["B"].times_interrupting = 1
    /\ \E new \in Addable :
         /\ new.speaker = ""
         /\ new.end - new.start = 1
         /\ new.end = segments[1].start
         /\ LET report == MergedReport(InsertAt(segments, 0, new))
            IN  /\ DOMAIN report = {"A", "B", ""}
                /\ report["A"].times_interrupted = 1
                /\ report["B"].times_interrupting = 1
                /\ report[""].times_interrupting = 0

\* ---- the merge
\* C10: the speakers of the merged record are those of the talk-time
\* mapping; each has the latency fields of the latency calculator's entry
\* for them and the interruption fields of the interruption calculator's
\* entry, and 0 in the fields of an entry that does not exist.
C10_MergeTakesCalculatorsValues ==
    Merged =>
        /\ DOMAIN speaker_stats = {speaker_order[n] : n \in 1..Len(speaker_order)}
        /\ DOMAIN speaker_stats = {ReportKey(i) : i \in Indexes}
        /\ \A sp \in DOMAIN speaker_stats :
             /\ IF sp \in DOMAIN per_speaker_latency
                THEN /\ speaker_stats[sp].response_latency =
                            per_speaker_latency[sp].average_seconds
                     /\ speaker_stats[sp].response_count =
                            per_speaker_latency[sp].response_count
                     /\ speaker_stats[sp].quick_responses_percentage =
                            per_speaker_latency[sp].quick_responses_percentage
                ELSE /\ speaker_stats[sp].response_latency = 0
                     /\ speaker_stats[sp].response_count = 0
                     /\ speaker_stats[sp].quick_responses_percentage = 0
             /\ IF sp \in DOMAIN per_speaker_interruptions
                THEN /\ speaker_stats[sp].times_interrupted =
                            per_speaker_interruptions[sp].times_interrupted
                     /\ speaker_stats[sp].times_interrupting =
                            per_speaker_interruptions[sp].times_interrupting
                     /\ speaker_stats[sp].interruption_rate =
                            per_speaker_interruptions[sp].interruption_rate
                ELSE /\ speaker_stats[sp].times_interrupted = 0
                     /\ speaker_stats[sp].times_interrupting = 0
                     /\ speaker_stats[sp].interruption_rate = 0

\* B answers A after one second and A's segment has a positive length: B has
\* the latency entry's values, A, who has no latency entry, has zeroes, and
\* both have their interruption entries' values.
C10_Witness ==
    /\ Merged
    /\ Len(segments) = 2
    /\ DOMAIN speaker_stats = {"A", "B"}
    /\ "A" \notin DOMAIN per_speaker_latency
    /\ speaker_stats["A"].response_count = 0
    /\ speaker_stats["B"].response_latency = 100
    /\ speaker_stats["B"].response_count = 1
    /\ speaker_stats["B"].quick_responses_percentage = 0
    /\ "A" \in DOMAIN per_speaker_interruptions
    /\ speaker_stats["A"].interruption_rate =
           per_speaker_interruptions["A"].interruption_rate


\* ---- lists of 0 or 1 segments
\* C11: on a list of 0 or 1 segments the engine completes; the latency and
\* interruption calculators return no entries; an empty list gives an empty
\* speaker mapping; a single segment gives one speaker with response_count 0,
\* times_interrupted 0, times_interrupting 0, interruption_rate 0, and
\* percentage 100.0 when the segment has a positive length.
C11_ShortListsGiveZeroes ==
    /\ (pc = "transcribed" /\ Len(segments) <= 1) => ENABLED ComputeMetrics
    /\ (Merged /\ Len(segments) <= 1) =>
          /\ DOMAIN per_speaker_latency = {}
          /\ DOMAIN per_speaker_interruptions = {}
          /\ Len(segments) = 0 => DOMAIN speaker_stats = {}
          /\ Len(segments) = 1 =>
                /\ DOMAIN speaker_stats = {ReportKey(1)}
                /\ speaker_order = <<ReportKey(1)>>
                /\ speaker_stats[ReportKey(1)].segments = 1
                /\ speaker_stats[ReportKey(1)].response_count = 0
                /\ speaker_stats[ReportKey(1)].response_latency = 0
                /\ speaker_stats[ReportKey(1)].times_interrupted = 0
                /\ speaker_stats[ReportKey(1)].times_interrupting = 0
                /\ speaker_stats[ReportKey(1)].interruption_rate = 0
                /\ Duration(1) > 0 =>
                      speaker_stats[ReportKey(1)].percentage = 1000

\* The engine has run on the single segment (0, 2, "A"): A is the only
\* speaker, with 100.0 percent and zeroes.
C11_Witness ==
    /\ Merged
    /\ Len(segments) = 1
    /\ segments[1].speaker = "A" /\ segments[1].start = 0 /\ segments[1].end = 2
    /\ DOMAIN speaker_stats = {"A"}
    /\ speaker_stats["A"].percentage = 1000
    /\ speaker_stats["A"].times_interrupted = 0
    /\ speaker_stats["A"].response_count = 0


\* ---- a meeting without talk time
\* C12: when the talk time of all speakers sums to 0 the engine completes
\* and every speaker's percentage is 0: the division by the total is made
\* only for a positive total.
C12_ZeroTotalGivesZeroPercent ==
    /\ (pc = "transcribed" /\ ~TotalTalkTimeIsPositive) =>
           \A sp \in DOMAIN MergedReport(segments) :
               MergedReport(segments)[sp].percentage = 0
    /\ (Merged /\ ~TotalTalkTimeIsPositive) =>
           /\ DOMAIN speaker_stats = {ReportKey(i) : i \in Indexes}
           /\ \A sp \in DOMAIN speaker_stats :
                /\ speaker_stats[sp].percentage = 0
                /\ speaker_stats[sp].total_time = 0

\* Two speakers with one zero-length segment each: both have 0 percent.
C12_Witness ==
    /\ Merged
    /\ Len(segments) = 2
    /\ \A i \in Indexes : Duration(i) = 0
    /\ DOMAIN speaker_stats = {"A", "B"}
    /\ speaker_stats["A"].percentage = 0
    /\ speaker_stats["B"].percentage = 0


\* ---- interruption rate
\* The speaker's own talk time, in seconds.
RECURSIVE SumDurations(_)
SumDurations(I) ==
    IF I = {} THEN 0
    ELSE LET i == CHOOSE x \in I : TRUE
         IN  Duration(i) + SumDurations(I \ {i})
OwnTalkTime(sp) == SumDurations({i \in Indexes : segments[i].speaker = sp})
OwnReportedTime(sp) == SumDurations({i \in Indexes : ReportKey(i) = sp})

\* C13: a speaker's interruption_rate is (times_interrupted +
\* times_interrupting) divided by the speaker's own talk time in minutes, to
\* 2 decimals, and 0 when that talk time is 0; this holds of the
\* calculator's entries and of the entries of the merged report.
C13_RateIsPerOwnMinute ==
    Merged =>
        /\ \A sp \in DOMAIN per_speaker_interruptions :
             LET e == per_speaker_interruptions[sp]
                 events == e.times_interrupted + e.times_interrupting
             IN  IF OwnTalkTime(sp) > 0
                 THEN IsRounded(e.interruption_rate, events * 60 * 100,
                                OwnTalkTime(sp))
                 ELSE e.interruption_rate = 0
        /\ \A sp \in DOMAIN speaker_stats :
             LET e == speaker_stats[sp]
                 events == e.times_interrupted + e.times_interrupting
             IN  IF OwnReportedTime(sp) > 0
                 THEN IsRounded(e.interruption_rate, events * 60 * 100,
                                OwnReportedTime(sp))
                 ELSE e.interruption_rate = 0

\* B talks for the last second of A's two: one event each, 30 per minute
\* for A and 60 per minute for B, in a meeting of two seconds.
C13_Witness ==
    /\ Merged
    /\ Len(segments) = 2
    /\ segments[1].speaker = "A" /\ Duration(1) = 2
    /\ segments[2].speaker = "B" /\ Duration(2) = 1 /\ segments[2].end = 2
    /\ DOMAIN speaker_stats = {"A", "B"}
    /\ speaker_stats["A"].interruption_rate = 3000
    /\ speaker_stats["B"].interruption_rate = 6000


\* ---- quick responses
ZeroGapResponses(sp) == {k \in ResponsesOf(sp) : GapBefore(k) = 0}
OneSecondResponses(sp) == {k \in ResponsesOf(sp) : GapBefore(k) = 1}
QuickResponsesOf(sp) == {k \in ResponsesOf(sp) : GapBefore(k) < 1}

ReadAs0(v) == IF v = Absent THEN 0 ELSE v
\* The whitespace-separated tokens of a text, counted by their last
\* characters; none when the text is absent.
Tokens(t) ==
    IF t = AbsentText THEN 0
    ELSE Cardinality({i \in 1..Len(t) :
                         t[i] # " " /\ (i = Len(t) \/ t[i + 1] = " ")})
SegmentsOf(sp) == {i \in Indexes : ReportKey(i) = sp}
RECURSIVE SumReadDurations(_)
SumReadDurations(I) ==
    IF I = {} THEN 0
    ELSE LET i == CHOOSE x \in I : TRUE
         IN  (ReadAs0(segments[i].end) - ReadAs0(segments[i].start))
                 + SumReadDurations(I \ {i})
RECURSIVE SumTokens(_)
SumTokens(I) ==
    IF I = {} THEN 0
    ELSE LET i == CHOOSE x \in I : TRUE
         IN  Tokens(segments[i].text) + SumTokens(I \ {i})
RECURSIVE SumSegmentCounts(_)
SumSegmentCounts(order) ==
    IF order = <<>> THEN 0
    ELSE speaker_stats[Head(order)].segments + SumSegmentCounts(Tail(order))

\* C15: for every speaker label the talk-time pass gives total_time equal to
\* the sum of end - start over the speaker's segments (an absent start or end
\* read as 0), the segment count equal to the number of those segments, and
\* word_count equal to the number of whitespace-separated tokens of their
\* texts (an absent text read as empty); the segment counts of all speakers
\* sum to the length of the list.
C15_TalkTimeSumsPerSpeaker ==
    Merged =>
        /\ DOMAIN speaker_stats = {ReportKey(i) : i \in Indexes}
        /\ \A sp \in DOMAIN speaker_stats :
             /\ speaker_stats[sp].total_time =
                    100 * SumReadDurations(SegmentsOf(sp))
             /\ speaker_stats[sp].segments = Cardinality(SegmentsOf(sp))
             /\ speaker_stats[sp].word_count = SumTokens(SegmentsOf(sp))
        /\ SumSegmentCounts(speaker_order) = Len(segments)

\* A has a segment without "start" that ends at 1 and has two words after
\* and between blanks, and a segment from 0 to 1 without "text": two
\* seconds, two segments, two words.
C15_Witness ==
    /\ Merged
    /\ Len(segments) = 2
    /\ segments[1] = [start |-> Absent, end |-> 1, speaker |-> "A",
                      text |-> <<" ", "w", " ", " ", "w">>]
    /\ segments[2] = [start |-> 0, end |-> 1, speaker |-> "A",
                      text |-> AbsentText]
    /\ speaker_stats["A"].total_time = 200
    /\ speaker_stats["A"].segments = 2
    /\ speaker_stats["A"].word_count = 2


Orders ==
    {f \in [Indexes -> Indexes] : \A i \in Indexes : \E j \in Indexes : f[j] = i}
Permuted(f) == [i \in Indexes |-> segments[f[i]]]
\* The talk-time entries the engine computes for a list.
Aggregates(segs) == WithPercentages(TalkTime(segs))
\* No addition of durations is rounded, in whatever order they are added.
SumsAreExact == SumDurations(Indexes) < 2 ^ FloatBits

\* C17, as stated: total_time, word_count, segment count and percentage of
\* every speaker are the same for every permutation of the segment list.
C17_AggregatesIgnoreOrder ==
    Merged =>
        \A f \in Orders :
            LET other == Aggregates(Permuted(f))
            IN  /\ DOMAIN other = DOMAIN speaker_stats
                /\ \A sp \in DOMAIN speaker_stats :
                     /\ other[sp].total_time = speaker_stats[sp].total_time
                     /\ other[sp].word_count = speaker_stats[sp].word_count
                     /\ other[sp].segments = speaker_stats[sp].segments
                     /\ other[sp].percentage = speaker_stats[sp].percentage

\* C17, amended: for every permutation of the segment list the speakers,
\* their word_count and their segment count are the same; total_time and
\* percentage are the same when no addition of durations is rounded (they
\* are float sums taken in list order).
C17_AggregatesIgnoreOrderWhenExact ==
    Merged =>
        \A f \in Orders :
            LET other == Aggregates(Permuted(f))
            IN  /\ DOMAIN other = DOMAIN speaker_stats
                /\ \A sp \in DOMAIN speaker_stats :
                     /\ other[sp].word_count = speaker_stats[sp].word_count
                     /\ other[sp].segments = speaker_stats[sp].segments
                     /\ SumsAreExact =>
                          /\ other[sp].total_time = speaker_stats[sp].total_time
                          /\ other[sp].percentage = speaker_stats[sp].percentage

\* B speaks first, then A, then B, one second each; in the order A, B, B
\* the speakers appear the other way round and the entries are the same.
C17_Witness ==
    /\ Merged
    /\ Len(segments) = 3
    /\ \A i \in Indexes : Duration(i) = 1
    /\ speaker_order = <<"B", "A">>
    /\ speaker_stats["B"].percentage = 667
    /\ \E f \in Orders :
         /\ TalkTime(Permuted(f)).order = <<"A", "B">>
         /\ Aggregates(Permuted(f))["B"].percentage = 667
         /\ Aggregates(Permuted(f))["B"].total_time = 200
         /\ Aggregates(Permuted(f))["A"].segments = 1



\* ---- C18
\* The speaker labels observed in the segment list; a segment without one
\* is counted under "Unknown".
DistinctLabels == {ReportKey(i) : i \in Indexes}

\* The report has exactly one entry per observed label, and every call of
\* the tip collaborator was handed their number as total_speakers.
ReportCountsDistinctLabels ==
    /\ DOMAIN speaker_stats = DistinctLabels
    /\ Len(speaker_order) = Cardinality(DistinctLabels)
    /\ \A n \in 1..Len(tip_calls) :
         tip_calls[n].args.total_speakers = Cardinality(DistinctLabels)

\* C18: once the statistics of a meeting are computed, the number of
\* speakers reported for it (num_speakers) and the total_speakers handed
\* to the tip collaborator equal the number of distinct speaker labels of
\* the segment list, and the report holds one entry per distinct label.
C18_SpeakerCountIsDistinctLabels ==
    pc \in {"tips", "saved"} =>
        /\ num_speakers = Cardinality(DistinctLabels)
        /\ ReportCountsDistinctLabels


\* ---- C19
\* The speakers the tip collaborator was called for, in call order.
CalledSpeakers == [n \in 1..Len(tip_calls) |-> tip_calls[n].args.speaker_label]

\* The tip loop has visited every speaker.
TipLoopFinished == pc = "saved" \/ (pc = "tips" /\ tip_queue = <<>>)

\* Call n was handed the merged values of its speaker: the talk-time values
\* of the segment list and the values the two calculators returned for the
\* speaker (zero where a calculator has no entry for the speaker).
CallHasMergedValues(n) ==
    LET a == tip_calls[n].args
        sp == a.speaker_label
        talk == WithPercentages(TalkTime(segments))
    IN  /\ sp \in DOMAIN talk
        /\ a.talk_time_percentage = talk[sp].percentage
        /\ a.word_count = talk[sp].word_count
        /\ a.segments_count = talk[sp].segments
        /\ a.avg_response_latency =
               IF sp \in DOMAIN per_speaker_latency
               THEN per_speaker_latency[sp].average_seconds ELSE 0
        /\ a.times_interrupted = TimesInterrupted(sp)
        /\ a.times_interrupting = TimesInterrupting(sp)

\* A step that calls the collaborator is taken with the merge done, is a
\* call for a speaker not called before, and changes the tips of no other
\* speaker.
CallStep ==
    tip_calls' # tip_calls =>
        /\ pc = "tips"
        /\ speaker_stats = MergedReport(segments)
        /\ Len(tip_calls') = Len(tip_calls) + 1
        /\ LET sp == tip_calls'[Len(tip_calls')].args.speaker_label
           IN  /\ sp \in DOMAIN speaker_stats
               /\ \A n \in 1..Len(tip_calls) : CalledSpeakers[n] # sp
               /\ \A other \in DOMAIN communication_tips \ {sp} :
                    /\ other \in DOMAIN communication_tips'
                    /\ communication_tips'[other] = communication_tips[other]
               /\ \A n \in 1..Len(tip_calls) : tip_calls'[n] = tip_calls[n]

\* C19: the tip collaborator is called exactly once for each speaker of the
\* report, only with the latency and interruption metrics merged, with the
\* speaker's merged percentage, word count, segment count, average response
\* latency, times_interrupted and times_interrupting; a call's arguments
\* are fixed by the segment list and its result changes only the tips of
\* its own speaker.
C19_TipsOncePerSpeakerAfterMerge ==
    /\ [](/\ \A n \in 1..Len(tip_calls) : CallHasMergedValues(n)
          /\ \A n, k \in 1..Len(tip_calls) :
               CalledSpeakers[n] = CalledSpeakers[k] => n = k
          /\ TipLoopFinished =>
               {CalledSpeakers[n] : n \in 1..Len(tip_calls)}
                   = DOMAIN speaker_stats)
    /\ [][CallStep]_vars

\* Both calls of a two-speaker meeting are made, B having interrupted A and
\* answered nobody: A's call was handed times_interrupted 1 and raised, B's
\* was handed times_interrupting 1 and returned tips.
C19_Witness ==
    /\ pc = "saved"
    /\ Len(tip_calls) = 2
    /\ CalledSpeakers = <<"A", "B">>
    /\ tip_calls[1].args.times_interrupted = 1
    /\ tip_calls[2].args.times_interrupting = 1
    /\ tip_calls[2].args.segments_count = 1
    /\ tip_calls[1].raised
    /\ communication_tips["B"] = tip_calls[2].returned
    /\ tip_calls[2].returned # <<>>


\* ---- C20
\* The end timestamp of the last segment, 0 for an empty list.
LastEnd == IF segments = <<>> THEN 0 ELSE segments[Len(segments)].end

\* The global summary as claimed: the number of events, and that number
\* per minute of LastEnd (in hundredths), 0 when LastEnd is 0.
GlobalSummary ==
    [total_count |-> Cardinality(Events),
     rate_per_minute |->
         IF LastEnd = 0 THEN 0
         ELSE Round(Cardinality(Events) * 60 * 100, LastEnd)]

IsOverlapExample ==
    /\ Len(segments) = 2
    /\ segments[1].start = 0 /\ segments[1].end = 5
    /\ segments[1].speaker = "A"
    /\ segments[2].start = 3 /\ segments[2].end = 8
    /\ segments[2].speaker = "B"

CompletedWasSent ==
    \E n \in 1..Len(status_calls) : status_calls[n].status = "completed"
CompletedWasWritten ==
    \E n \in 1..Len(status_writes) : status_writes[n] = "completed"
\* The steps before the status update: download, transcription, save.
EarlyFailures ==
    (DownloadOutcomes \ {"ok"}) \cup {"Transcription failed", "save failed"}

LastStatusCall == status_calls[Len(status_calls)]

\* C22: a run that built its client has, when it leaves the try statement,
\* sent an update to "completed" or an update to "failed" with the message
\* of the exception it caught, whichever step raised; the except branch can
\* always be taken and leads to the finally block also when its own update
\* raises, so that failure does not leave the task.
C22_StatusIsAlwaysSent ==
    /\ pc \in {"start", "downloaded", "transcribed", "tips", "saved",
               "except", "finally", "done"}
    /\ pc = "except" => (error # None /\ ENABLED HandleFailure)
    /\ pc \in {"finally", "done"} =>
           /\ status_calls # <<>>
           /\ IF error = None
              THEN LastStatusCall = [status |-> "completed", error |-> None]
              ELSE LastStatusCall = [status |-> "failed", error |-> error]
    /\ \A n \in 1..Len(status_calls) :
         status_calls[n].status = "failed" =>
             (n = Len(status_calls) /\ status_calls[n].error = error
              /\ error # None)

\* The download was refused; the update to "failed" was sent with that
\* error and raised without being written, and the run still finished.
C22_Witness ==
    /\ pc = "done"
    /\ error = "raised_before_open"
    /\ status_calls = <<[status |-> "failed", error |-> "raised_before_open"]>>
    /\ status_writes = <<>>


\* C23, as stated: within one run at most one terminal status is sent and
\* written: once the update to "completed" has been sent, no update to
\* "failed" is sent, also when the "completed" call raises after its write
\* took effect.
C23_AtMostOneTerminalStatus ==
    /\ Len(status_calls) <= 1
    /\ Len(status_writes) <= 1
    /\ CompletedWasSent =>
           \A n \in 1..Len(status_calls) : status_calls[n].status # "failed"


\* C24, as stated: when the run is over, the temporary directory made at
\* its start and the downloaded file in it no longer exist, on the success
\* path and on every failure path.
C24_TempFilesAreRemoved ==
    pc = "done" => (~temp_dir /\ ~temp_file)


\* ---- the LLM adapter
\* The provider registered under the preferred name, when it is available.
PreferredAvailable ==
    {i \in 1..Len(providers) :
        Lower(providers[i].name) = preferred_provider
        /\ providers[i].api_key > 10}
AvailableProviders == {i \in 1..Len(providers) : providers[i].api_key > 10}
FirstOf(S) == CHOOSE i \in S : \A j \in S : i <= j
SelectionCall ==
    /\ selected_provider = None
    /\ Len(provider_calls') = Len(provider_calls) + 1
    /\ provider_calls'[Len(provider_calls')].op = "get_provider"
RegisteredNames == [i \in 1..Len(providers) |-> providers[i].name]

\* C25: get_provider with no provider selected returns the preferred
\* provider when it is registered and available, otherwise the first
\* available provider in registration order (Gemini before OpenAI), and
\* raises, leaving selected_provider unset, when none is available.
C25_ProviderSelection ==
    [][/\ RegisteredNames' \in {<<>>, <<"Gemini">>, <<"OpenAI">>,
                                <<"Gemini", "OpenAI">>}
       /\ SelectionCall =>
            LET returned == provider_calls'[Len(provider_calls')].returned
            IN  /\ PreferredAvailable # {} =>
                     /\ Lower(returned) = preferred_provider
                     /\ selected_provider' = returned
                /\ (PreferredAvailable = {} /\ AvailableProviders # {}) =>
                     /\ returned = providers[FirstOf(AvailableProviders)].name
                     /\ selected_provider' = returned
                /\ AvailableProviders = {} =>
                     /\ returned = Raised
                     /\ selected_provider' = None]_vars

\* An adapter with both providers available and OpenAI preferred has
\* returned OpenAI.
C25_Witness ==
    /\ RegisteredNames = <<"Gemini", "OpenAI">>
    /\ AvailableProviders = {1, 2}
    /\ preferred_provider = "openai"
    /\ provider_calls # <<>>
    /\ provider_calls[1].op = "get_provider"
    /\ provider_calls[1].returned = "OpenAI"

\* No reset_provider call lies between calls i and j.
NoResetBetween(i, j) ==
    \A k \in i..j : provider_calls[k].op # "reset_provider"
GetCalls == {i \in 1..Len(provider_calls) :
                provider_calls[i].op = "get_provider"}

\* C26: after get_provider returned P, the later calls return P without
\* consulting any provider until reset_provider is called; the call after
\* a reset selects again; the tip calls of one job use one provider.
C26_SelectionIsCached ==
    /\ \A i \in GetCalls : \A j \in GetCalls :
         (i < j /\ provider_calls[i].returned # Raised /\ NoResetBetween(i, j))
            => /\ provider_calls[j].returned = provider_calls[i].returned
               /\ provider_calls[j].consulted = <<>>
    /\ \A j \in GetCalls :
         (j > 1 /\ provider_calls[j - 1].op = "reset_provider")
            => /\ provider_calls[j].consulted # <<>> \/ providers = <<>>
               /\ LET again == get_provider(providers, preferred_provider, None)
                  IN  /\ provider_calls[j].returned = again.returned
                      /\ provider_calls[j].consulted = again.consulted
    /\ \A m \in 1..Len(tip_calls) : \A n \in 1..Len(tip_calls) :
         tip_calls[m].provider = tip_calls[n].provider

\* One adapter answered from its cache and selected again after a reset,
\* or one job asked for the provider once per speaker for two speakers.
C26_Witness ==
    \/ /\ Len(provider_calls) = 3
       /\ provider_calls[1].op = "get_provider"
       /\ provider_calls[1].returned # Raised
       /\ provider_calls[2].op = "reset_provider"
       /\ provider_calls[3].op = "get_provider"
       /\ provider_calls[3].consulted # <<>>
    \/ /\ Len(tip_calls) = 2
       /\ Len(provider_calls) = 2
       /\ tip_calls[1].provider # None
       /\ provider_calls[2].consulted = <<>>


\* ---- the AssemblyAI provider
\* The words of all segments, one after the other.
RECURSIVE WordsOf(_)
WordsOf(segs) ==
    IF segs = <<>> THEN <<>> ELSE segs[1].words \o WordsOf(Tail(segs))
ParsedFromWords == pc = "parsed" /\ transcript.utterances = <<>>

\* C27: without utterances the segments are the maximal runs of
\* consecutive words with one speaker label: adjacent segments differ in
\* speaker, the segments' words are the word list in order and all carry
\* the segment's label, a segment starts with its first word and ends with
\* its last, and num_speakers is the number of labels among the segments.
C27_WordsFoldIntoMaximalRuns ==
    ParsedFromWords =>
      /\ \A i \in 1..(Len(segments) - 1) :
           segments[i].speaker # segments[i + 1].speaker
      /\ WordsOf(segments) = [i \in 1..Len(transcript.words) |->
                                 WordDict(transcript.words[i])]
      /\ \A i \in 1..Len(segments) :
           LET seg == segments[i]
               before == Len(WordsOf(SubSeq(segments, 1, i - 1)))
           IN  /\ seg.words # <<>>
               /\ seg.start = seg.words[1].start
               /\ seg.end = seg.words[Len(seg.words)].end
               /\ \A k \in 1..Len(seg.words) :
                    SpeakerLabel(transcript.words[before + k].speaker)
                       = seg.speaker
      /\ num_speakers =
           Cardinality({segments[i].speaker : i \in 1..Len(segments)})

\* Three words, the first two of one speaker, were folded into two
\* segments.
C27_Witness ==
    /\ ParsedFromWords
    /\ Len(transcript.words) = 3
    /\ Len(segments) = 2
    /\ Len(segments[1].words) = 2
    /\ segments[1].end # segments[1].start
    /\ num_speakers = 2


\* ---- interruptions and talk time
\* speaker_talk_time of the interruption calculator.
SpeakerTalkTime ==
    InitInterruptions(segments, [speaker_interruptions |-> EmptyMap,
                                 speaker_talk_time |-> EmptyMap]).speaker_talk_time
NoNegativeDurations ==
    \A i \in 1..Len(segments) :
        NumberOr0(segments[i].end) >= NumberOr0(segments[i].start)

\* C28: when no segment ends before it starts, a speaker whose own talk
\* time is 0 has neither been interrupted nor interrupted anyone, so a
\* speaker with an interruption count above 0 has a positive talk time and
\* the rate is computed from the counts.
C28_SilentSpeakersHaveNoInterruptions ==
    (pc = "tips" /\ NoNegativeDurations) =>
      \A sp \in DOMAIN per_speaker_interruptions :
        LET entry == per_speaker_interruptions[sp]
        IN  /\ SpeakerTalkTime[sp] >= 0
            /\ SpeakerTalkTime[sp] = 0 =>
                 /\ entry.times_interrupted = 0
                 /\ entry.times_interrupting = 0
                 /\ entry.interruption_rate = 0
            /\ entry.times_interrupted + entry.times_interrupting > 0 =>
                 SpeakerTalkTime[sp] > 0

\* One speaker interrupted another while a third, whose only segment has
\* no length and lies inside theirs, has a talk time of 0.
C28_Witness ==
    /\ pc = "tips"
    /\ Len(segments) = 3
    /\ \E sp \in DOMAIN per_speaker_interruptions :
         per_speaker_interruptions[sp].times_interrupted > 0
    /\ \E sp \in DOMAIN per_speaker_interruptions :
         /\ SpeakerTalkTime[sp] = 0
         /\ \E i \in 1..3 : \E j \in 1..3 :
              /\ segments[i].speaker = sp
              /\ segments[j].speaker # sp
              /\ segments[j].start <= segments[i].start
              /\ segments[i].end <= segments[j].end
              /\ segments[j].start < segments[j].end


\* ---- the order of the segments and the interruptions
\* The number of interruption events of a result.
RECURSIVE TotalInterrupted(_, _)
TotalInterrupted(result, speakers) ==
    IF speakers = {} THEN 0
    ELSE LET sp == CHOOSE s \in speakers : TRUE
         IN  result[sp].times_interrupted
                + TotalInterrupted(result, speakers \ {sp})
Involvements(entry) == entry.times_interrupted + entry.times_interrupting

\* C29, as stated: for every permutation of the segment list the number of
\* interruptions, each speaker's times_interrupted + times_interrupting and
\* each speaker's interruption_rate are the same.
C29_InterruptionTotalsIgnoreOrder ==
    pc = "tips" =>
        \A f \in Orders :
            LET other == calculate_per_speaker_interruptions(Permuted(f))
                mine == per_speaker_interruptions
            IN  /\ DOMAIN other = DOMAIN mine
                /\ TotalInterrupted(other, DOMAIN other)
                      = TotalInterrupted(mine, DOMAIN mine)
                /\ \A sp \in DOMAIN mine :
                     /\ Involvements(other[sp]) = Involvements(mine[sp])
                     /\ other[sp].interruption_rate = mine[sp].interruption_rate

\* C29, amended: for every permutation of the segment list the number of
\* interruptions and each speaker's times_interrupted + times_interrupting
\* are the same; interruption_rate is the same when no addition of
\* durations is rounded (the talk time is a float sum in list order).
C29_InterruptionCountsIgnoreOrder ==
    pc = "tips" =>
        \A f \in Orders :
            LET other == calculate_per_speaker_interruptions(Permuted(f))
                mine == per_speaker_interruptions
            IN  /\ DOMAIN other = DOMAIN mine
                /\ TotalInterrupted(other, DOMAIN other)
                      = TotalInterrupted(mine, DOMAIN mine)
                /\ \A sp \in DOMAIN mine :
                     /\ Involvements(other[sp]) = Involvements(mine[sp])
                     /\ SumsAreExact =>
                          other[sp].interruption_rate
                             = mine[sp].interruption_rate

\* A and B overlap: in the order given A was interrupted, in another order
\* A interrupted, and A is involved once in both.
C29_Witness ==
    /\ pc = "tips"
    /\ Len(segments) >= 2
    /\ "A" \in DOMAIN per_speaker_interruptions
    /\ per_speaker_interruptions["A"].times_interrupted = 1
    /\ per_speaker_interruptions["A"].times_interrupting = 0
    /\ per_speaker_interruptions["A"].interruption_rate > 0
    /\ \E f \in Orders :
         LET other == calculate_per_speaker_interruptions(Permuted(f))
         IN  /\ other["A"].times_interrupted = 0
             /\ other["A"].times_interrupting = 1
             /\ other["A"].interruption_rate
                   = per_speaker_interruptions["A"].interruption_rate


\* ---- bounds of the latency figures
AllLabelled == \A i \in 1..Len(segments) : segments[i].speaker # NoSpeaker
\* quick_responses_count of a speaker of the report, 0 without an entry.
QuickCount(sp) ==
    IF sp \in DOMAIN per_speaker_latency
    THEN per_speaker_latency[sp].quick_responses_count
    ELSE 0

\* C30: when every segment carries a label, every speaker of the merged
\* report has 0 <= quick responses <= response_count <= segment count,
\* response_count is below the segment count for the speaker of the first
\* segment, quick_responses_percentage lies in 0..100 and the average
\* latency is not negative.
C30_LatencyCountsAreBounded ==
    (Merged /\ AllLabelled) =>
      /\ \A sp \in DOMAIN speaker_stats :
           LET stats == speaker_stats[sp]
           IN  /\ 0 <= QuickCount(sp)
               /\ QuickCount(sp) <= stats.response_count
               /\ stats.response_count <= stats.segments
               /\ 0 <= stats.quick_responses_percentage
               /\ stats.quick_responses_percentage <= 1000
               /\ stats.response_latency >= 0
      /\ segments # <<>> =>
           /\ segments[1].speaker \in DOMAIN speaker_stats
           /\ speaker_stats[segments[1].speaker].response_count
                 < speaker_stats[segments[1].speaker].segments

\* A, B, A: B answers at once and has as many responses as segments, A
\* answers after a second, not quickly, and has one response on two
\* segments.
C30_Witness ==
    /\ Merged
    /\ AllLabelled
    /\ Len(segments) = 3
    /\ segments[1].speaker = "A"
    /\ speaker_stats["A"].segments = 2
    /\ speaker_stats["A"].response_count = 1
    /\ QuickCount("A") = 0
    /\ speaker_stats["A"].response_latency = 100
    /\ speaker_stats["B"].segments = 1
    /\ speaker_stats["B"].response_count = 1
    /\ QuickCount("B") = 1
    /\ speaker_stats["B"].quick_responses_percentage = 1000

=============================================================================
